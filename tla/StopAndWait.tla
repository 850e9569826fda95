---------------------------- MODULE StopAndWait ----------------------------
(***************************************************************************)
(* What the acknowledged channels between AP and PCP promise, without      *)
(* sequence numbers, images and copies of flags: the sender puts in one    *)
(* message at a time, the receiver takes it once, or until it is content   *)
(* with it, and the sender is free again only after the receiver has       *)
(* finished it.  The promise ends when the sender frees the channel by     *)
(* itself, after a timeout.                                                *)
(***************************************************************************)
EXTENDS Naturals, Sequences

CONSTANT Again       \* the receiver may be handed a message again, as long
                     \* as it has not taken it for good

VARIABLES phase,      \* of the channel, or of the message in it
          message,    \* the message in the channel; 0, if it is free
          taken       \* the messages the receiver has taken

vars == <<phase, message, taken>>

Init == phase = "free" /\ message = 0 /\ taken = <<>>

(* Messages are numbered in the order in which they come up; some of them  *)
(* never get into the channel.                                             *)
Newer(m) == m \in Nat \ {0} /\ \A i \in 1..Len(taken) : taken[i] < m

Post == /\ phase = "free"
        /\ phase' = "posted" /\ Newer(message') /\ taken' = taken

Take == /\ phase = "posted"
        /\ phase' = "taken" /\ taken' = Append(taken, message) /\ message' = message

(* The message stays where it is, for another try. *)
TakeAndLeave == /\ phase = "posted" /\ Again
                /\ taken' = Append(taken, message) /\ UNCHANGED <<phase, message>>

Finish == /\ phase = "taken"
          /\ phase' = "done" /\ UNCHANGED <<message, taken>>

(* The receiver has the answer while it takes the message. *)
TakeAndFinish == /\ phase = "posted"
                 /\ phase' = "done" /\ taken' = Append(taken, message) /\ message' = message

Release == /\ phase = "done"
           /\ phase' = "free" /\ message' = 0 /\ taken' = taken

(* The sender has the next message while it sees the acknowledge. *)
ReleaseAndPost == /\ phase = "done"
                  /\ phase' = "posted" /\ Newer(message') /\ taken' = taken

GiveUp == phase # "broken" /\ phase' = "broken" /\ taken' = taken

Broken == phase = "broken" /\ phase' = "broken"

Next == \/ Post \/ Take \/ TakeAndLeave \/ Finish \/ TakeAndFinish
        \/ Release \/ ReleaseAndPost \/ GiveUp \/ Broken

Spec == Init /\ [][Next]_vars
=============================================================================
