-------------------------- MODULE CheckThenCreate ---------------------------
(***************************************************************************)
(* What the platform's create handlers promise when several of them run at *)
(* once.  Each reads the collection, finds nothing under its key, and in a *)
(* later step inserts a record; nothing in the database makes the key      *)
(* unique.  An insert can therefore happen although another actor has      *)
(* inserted meanwhile, but only by an actor that had looked before: the    *)
(* number of records of a key never exceeds the number of actors, but for  *)
(* those inserted directly, by an endpoint that does not look at all.      *)
(***************************************************************************)
EXTENDS Naturals, FiniteSets

CONSTANTS
    Actors,   \* the processes that may run the handler at the same time:
              \* finitely many, since the bound counts them
    Keys,     \* what a record should be unique for
    NoKey     \* the value of looking when an actor is not in the handler,
              \* which is no key

VARIABLES
    looking,  \* looking[a]: the key that actor a has found to be free
    made,     \* made[k]: the records of key k
    direct    \* direct[k]: how many records of k were inserted directly

vars == <<looking, made, direct>>

TypeOK ==
    /\ looking \in [Actors -> Keys \cup {NoKey}]
    /\ made \in [Keys -> Nat]
    /\ direct \in [Keys -> Nat]

Init ==
    /\ looking = [a \in Actors |-> NoKey]
    /\ made = [k \in Keys |-> 0]
    /\ direct = [k \in Keys |-> 0]

Look(a, k) ==
    /\ looking[a] = NoKey
    /\ made[k] = 0
    /\ looking' = [looking EXCEPT ![a] = k]
    /\ UNCHANGED <<made, direct>>

Create(a) ==
    /\ looking[a] # NoKey
    /\ made' = [made EXCEPT ![looking[a]] = @ + 1]
    /\ looking' = [looking EXCEPT ![a] = NoKey]
    /\ direct' = direct

Insert(k) ==
    /\ made' = [made EXCEPT ![k] = @ + 1]
    /\ direct' = [direct EXCEPT ![k] = @ + 1]
    /\ looking' = looking

GiveUp(a) ==
    /\ looking[a] # NoKey
    /\ looking' = [looking EXCEPT ![a] = NoKey]
    /\ UNCHANGED <<made, direct>>

Remove(k) ==
    /\ made[k] > 0
    /\ made' = [made EXCEPT ![k] = @ - 1]
    /\ UNCHANGED <<looking, direct>>

Next ==
    \/ \E a \in Actors : Create(a) \/ GiveUp(a) \/ \E k \in Keys : Look(a, k)
    \/ \E k \in Keys : Insert(k) \/ Remove(k)

Spec == Init /\ [][Next]_vars

Lookers(k) == {a \in Actors : looking[a] = k}

(* Records of a key, made or about to be made, never outnumber the actors. *)
Bounded ==
    \A k \in Keys :
        made[k] + Cardinality(Lookers(k)) <= Cardinality(Actors) + direct[k]
=============================================================================
