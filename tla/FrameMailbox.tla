---------------------------- MODULE FrameMailbox ----------------------------
(***************************************************************************)
(* What a caller of MLX90640_GetFrameData may rely on, with no bus, no     *)
(* status register and no retry loop: the sensor publishes RAM images, and *)
(* a request either is answered with one whole image that was the newest   *)
(* when it was taken and was never answered before, or it fails.           *)
(***************************************************************************)
EXTENDS Integers

CONSTANTS Images,   \* the RAM images the sensor can publish
          NoImage   \* no image

VARIABLES newest,   \* the image in the sensor's RAM
          unread,   \* newest may still be taken by a request
          taken,    \* the image taken by the current request
          answer    \* "pending", "error" or the image returned

vars == <<newest, unread, taken, answer>>

TypeOK ==
    /\ newest \in Images
    /\ unread \in BOOLEAN
    /\ taken \in Images \cup {NoImage}
    /\ answer \in [status: {"pending", "error", "ok"}, image: Images \cup {NoImage}]

Pending == [status |-> "pending", image |-> NoImage]
Error   == [status |-> "error", image |-> NoImage]

Init ==
    /\ newest \in Images
    /\ unread = FALSE
    /\ taken = NoImage
    /\ answer = Pending

\* Only a new image becomes readable: one that was read stays read.
Publish ==
    /\ newest' \in Images \ {newest}
    /\ unread' = TRUE
    /\ UNCHANGED <<taken, answer>>

Request ==
    /\ answer.status # "pending"
    /\ answer' = Pending
    /\ UNCHANGED <<newest, unread, taken>>

\* An image is taken at most once: taking it makes it read.
Take ==
    /\ answer.status = "pending"
    /\ taken = NoImage
    /\ unread
    /\ taken' = newest
    /\ unread' = FALSE
    /\ UNCHANGED <<newest, answer>>

Answer ==
    /\ answer.status = "pending"
    /\ taken # NoImage
    /\ answer' = [status |-> "ok", image |-> taken]
    /\ taken' = NoImage
    /\ UNCHANGED <<newest, unread>>

\* A request that fails may have lost the image it was about to take.
Fail ==
    /\ answer.status = "pending"
    /\ answer' = Error
    /\ taken' = NoImage
    /\ unread' \in BOOLEAN
    /\ unread' => unread
    /\ UNCHANGED newest

Next == Publish \/ Request \/ Take \/ Answer \/ Fail

Spec == Init /\ [][Next]_vars
=============================================================================
