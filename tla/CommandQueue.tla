---------------------------- MODULE CommandQueue ----------------------------
(***************************************************************************)
(* What the sound driver promises about its messages: whatever the program *)
(* asks for with spcPlay, spcStop, spcEffect, spcFadeModuleVolume,         *)
(* spcSetModuleVolume and spcAllocateSoundRegion is executed by the SPC700 *)
(* exactly once, with the arguments it was given, in the order of the      *)
(* calls, and sooner or later.                                             *)
(***************************************************************************)
EXTENDS Sequences

CONSTANT Command

VARIABLES pending,   \* asked for and not yet executed
          done       \* executed, in order

vars == <<pending, done>>

TypeOK == pending \in Seq(Command) /\ done \in Seq(Command)

Init == pending = <<>> /\ done = <<>>

Submit(c) == pending' = Append(pending, c) /\ UNCHANGED done

Execute ==
  /\ pending # <<>>
  /\ done' = Append(done, Head(pending))
  /\ pending' = Tail(pending)

Next == Execute \/ \E c \in Command : Submit(c)

Safe == Init /\ [][Next]_vars

Spec == Safe /\ WF_vars(Execute)
=============================================================================
