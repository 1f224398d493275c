----------------------------- MODULE ChatTurns -----------------------------
(***************************************************************************)
(* What a chat promises of its turns, whoever works on them: one turn is   *)
(* open at a time, it is the last one, it is answered only if its owner    *)
(* may still see every document it rests on, and an answer, like a         *)
(* withdrawal for lost access, is final.                                   *)
(***************************************************************************)
EXTENDS Naturals

CONSTANTS Documents,
          MaxTurns      \* bound: turns of the chat

VARIABLES state,        \* of each turn
          basis,        \* the documents it rests on
          allowed       \* the documents whose text the owner may see

vars == <<state, basis, allowed>>

Turns == 1..MaxTurns

NoneOpen == \A t \in Turns : state[t] # "open"

Last(t) == /\ state[t] # "none"
           /\ \A u \in Turns : u > t => state[u] = "none"

Init ==
  /\ state = [t \in Turns |-> "none"]
  /\ basis = [t \in Turns |-> {}]
  /\ allowed \in SUBSET Documents

Set(t, s) == state' = [state EXCEPT ![t] = s]

\* A question is asked; without any document to look at it is answered at once.
Open(t) ==
  /\ state[t] = "none"
  /\ \A u \in Turns : u < t <=> state[u] # "none"
  /\ NoneOpen
  /\ Set(t, "open") \/ Set(t, "answered")
  /\ UNCHANGED <<basis, allowed>>

Ground(t) ==
  /\ state[t] = "open"
  /\ \E S \in SUBSET allowed : basis' = [basis EXCEPT ![t] = S]
  /\ UNCHANGED <<state, allowed>>

Answer(t) ==
  /\ state[t] = "open"
  /\ basis[t] \subseteq allowed
  /\ Set(t, "answered")
  /\ UNCHANGED <<basis, allowed>>

Pause(t) ==
  /\ state[t] = "open"
  /\ Set(t, "paused")
  /\ UNCHANGED <<basis, allowed>>

Withdraw(t) ==
  /\ state[t] = "open"
  /\ Set(t, "withdrawn")
  /\ UNCHANGED <<basis, allowed>>

\* A paused turn is taken up again, on the same basis or from nothing.
Reopen(t) ==
  /\ state[t] = "paused"
  /\ Last(t)
  /\ NoneOpen
  /\ \/ Set(t, "open") /\ basis' \in {basis, [basis EXCEPT ![t] = {}]}
     \/ Set(t, "answered") /\ basis' = [basis EXCEPT ![t] = {}]
  /\ UNCHANGED allowed

\* The chat is deleted.
Drop ==
  /\ state' = [t \in Turns |-> "none"]
  /\ basis' = [t \in Turns |-> {}]
  /\ UNCHANGED allowed

Access ==
  /\ allowed' \in SUBSET Documents
  /\ UNCHANGED <<state, basis>>

Next ==
  \/ \E t \in Turns : Open(t) \/ Ground(t) \/ Answer(t) \/ Pause(t) \/ Withdraw(t) \/ Reopen(t)
  \/ Drop \/ Access

Spec == Init /\ [][Next]_vars
=============================================================================
