----------------------------- MODULE CommandStream -----------------------------
(******************************************************************************)
(* What the GPU command queue promises its two threads: the handler receives  *)
(* every published command once, in the order of publication and with the     *)
(* payload it was published with.  VideoCore::GPUThread implements this.      *)
(******************************************************************************)
EXTENDS Naturals, Sequences

CONSTANT Command  \* what a command is: its fence and the bytes of its payload

VARIABLES published,  \* the commands given to EndQueue, in order
          handled     \* the commands the handler has returned from

Init == published = << >> /\ handled = << >>

Publish == \E c \in Command : /\ published' = Append(published, c)
                              /\ UNCHANGED handled

Handle == /\ Len(handled) < Len(published)
          /\ handled' = Append(handled, published[Len(handled) + 1])
          /\ UNCHANGED published

Next == Publish \/ Handle

Spec == Init /\ [][Next]_<<published, handled>>
================================================================================
