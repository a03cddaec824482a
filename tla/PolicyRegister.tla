---------------------------- MODULE PolicyRegister ----------------------------
(***************************************************************************)
(* What the policy store promises its publishers: a compare-and-set        *)
(* register of policy generations.  A publication replaces the generation  *)
(* its caller expected; one that was acknowledged survives a power loss,   *)
(* one that was not may be lost, and then everything after it is lost too. *)
(* Abstract specification of PolicyStore.                                  *)
(***************************************************************************)
EXTENDS Naturals, Sequences

CONSTANTS Proc, Rev, None, NoReq

VARIABLES
  asked,    \* what each process asks for: the expected and the new generation,
            \* or NoReq
  history,  \* the generations the register has held, oldest first
  kept      \* how many of them are acknowledged

vars == <<asked, history, kept>>

Request == [exp : Rev \cup {None}, new : Rev]

\* The generation the register holds.
Current == IF history = <<>> THEN None ELSE history[Len(history)]

Init ==
  /\ asked = [p \in Proc |-> NoReq]
  /\ history = <<>>
  /\ kept = 0

Ask(p) ==
  /\ asked[p] = NoReq
  /\ \E r \in Request : asked' = [asked EXCEPT ![p] = r]
  /\ UNCHANGED <<history, kept>>

Publish(p) ==
  /\ asked[p] # NoReq
  /\ asked[p].exp = Current
  /\ history' = Append(history, asked[p].new)
  /\ UNCHANGED <<asked, kept>>

\* The call succeeds: what it published is there to stay.
Acknowledge(p) ==
  /\ asked[p] # NoReq
  /\ kept' = Len(history)
  /\ asked' = [asked EXCEPT ![p] = NoReq]
  /\ UNCHANGED history

\* The call fails or its process dies, before or after it published.
GiveUp(p) ==
  /\ asked[p] # NoReq
  /\ asked' = [asked EXCEPT ![p] = NoReq]
  /\ UNCHANGED <<history, kept>>

LoseTail ==
  /\ \E n \in kept .. Len(history) : history' = SubSeq(history, 1, n)
  /\ asked' = [p \in Proc |-> NoReq]
  /\ UNCHANGED kept

Next ==
  \/ \E p \in Proc : Ask(p) \/ Publish(p) \/ Acknowledge(p) \/ GiveUp(p)
  \/ LoseTail

Spec == Init /\ [][Next]_vars
=============================================================================
