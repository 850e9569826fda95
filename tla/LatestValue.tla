---------------------------- MODULE LatestValue ----------------------------
(***************************************************************************)
(* What the triple buffer core promises to the two processors, without its *)
(* buffer arithmetic: every channel has a private image of the producer, a *)
(* published image and a private image of the consumer.  The producer is   *)
(* never blocked, the consumer always gets the newest published image, and *)
(* an image the consumer holds does not change under it.  What the         *)
(* producer finds in its image after publishing is not promised at all.    *)
(***************************************************************************)
CONSTANTS Buffer,     \* the channels of the core
          Word,       \* addresses inside one channel
          Value,      \* contents of one word
          InitValue   \* contents of the memory after power on

VARIABLES proImg,     \* what the producer has written so far
          pubImg,     \* the last published image
          conImg      \* what the consumer reads

vars == <<proImg, pubImg, conImg>>

Image == [Word -> Value]

Init ==
    /\ proImg = [b \in Buffer |-> [w \in Word |-> InitValue]]
    /\ pubImg = proImg
    /\ conImg = proImg

(* The producer fills in one word of its private image. *)
Fill(b, w, v) ==
    /\ proImg' = [proImg EXCEPT ![b][w] = v]
    /\ UNCHANGED <<pubImg, conImg>>

(* The channels in P are published and those in C acquired at one instant; *)
(* a channel in both hands its new image over directly.                    *)
Exchange(P, C) ==
    /\ pubImg' = [b \in Buffer |-> IF b \in P THEN proImg[b] ELSE pubImg[b]]
    /\ conImg' = [b \in Buffer |-> IF b \in C THEN pubImg'[b] ELSE conImg[b]]
    /\ proImg' \in [Buffer -> Image]
    /\ \A b \in Buffer \ P : proImg'[b] = proImg[b]

Next ==
    \/ \E b \in Buffer, w \in Word, v \in Value : Fill(b, w, v)
    \/ \E P, C \in SUBSET Buffer : Exchange(P, C)

Spec == Init /\ [][Next]_vars
=============================================================================
