-------------------------------- MODULE Alarms --------------------------------
(***************************************************************************)
(* What a set of timers promises, without a tick counter that wraps around   *)
(* and without a list: an alarm set to the n ticks asked for it rings in the *)
(* n-th tick after that (in the next one if n is 0), not before and not      *)
(* later; one that was stopped does not ring; a repeated one is set again    *)
(* after it rang, unless it was set or stopped meanwhile.                    *)
(***************************************************************************)
EXTENDS Naturals

CONSTANTS Alarm, Off, Silent

VARIABLES
    asked,    \* the ticks asked for each alarm
    every,    \* the alarms to be repeated
    left,     \* the ticks each alarm still has, or Off
    ringing,  \* whether the alarms of this tick are being rung
    bell,     \* the alarm that rings, or Silent
    again     \* whether that alarm is to be set again

vars == <<asked, every, left, ringing, bell, again>>

Init ==
    /\ asked \in [Alarm -> Nat]
    /\ every \subseteq Alarm
    /\ left = [x \in Alarm |-> Off]
    /\ ringing = FALSE
    /\ bell = Silent
    /\ again = FALSE

(* Alarms are set and stopped between the ticks or by one that rings. *)
MayCall == ringing => bell # Silent

(* Set an alarm, to the ticks asked for it earlier or now. *)
Set(x) ==
    /\ MayCall
    /\ asked'[x] \in Nat
    /\ asked' = [asked EXCEPT ![x] = asked'[x]]
    /\ left' = [left EXCEPT ![x] = asked'[x]]
    /\ again' = (again /\ x # bell)
    /\ UNCHANGED <<every, ringing, bell>>

Stop(x) ==
    /\ MayCall
    /\ left' = [left EXCEPT ![x] = Off]
    /\ again' = (again /\ x # bell)
    /\ UNCHANGED <<asked, every, ringing, bell>>

(* Ask for other ticks, or for it to be repeated or not: an alarm that is set *)
(* rings when it would have rung.                                            *)
Ask(x) ==
    /\ MayCall
    /\ \/ /\ asked'[x] \in Nat
          /\ asked' = [asked EXCEPT ![x] = asked'[x]]
          /\ UNCHANGED <<every, again>>
       \/ /\ every' \in {every \ {x}, every \cup {x}}
          /\ again' = (again /\ bell \in every')
          /\ UNCHANGED asked
    /\ UNCHANGED <<left, ringing, bell>>

(* A tick passes for every alarm at once. *)
Advance ==
    /\ ~ringing
    /\ ringing' = TRUE
    /\ left' = [x \in Alarm |-> IF left[x] \in {Off, 0} THEN left[x] ELSE left[x] - 1]
    /\ UNCHANGED <<asked, every, bell, again>>

Ring(x) ==
    /\ ringing /\ bell = Silent
    /\ left[x] = 0
    /\ left' = [left EXCEPT ![x] = Off]
    /\ bell' = x
    /\ again' = (x \in every)
    /\ UNCHANGED <<asked, every, ringing>>

(* The bell falls silent. *)
Silence ==
    /\ bell # Silent
    /\ left' = IF again THEN [left EXCEPT ![bell] = asked[bell]] ELSE left
    /\ bell' = Silent
    /\ again' = FALSE
    /\ UNCHANGED <<asked, every, ringing>>

(* The tick is over when nothing is left to ring. *)
Quiet ==
    /\ ringing /\ bell = Silent
    /\ \A x \in Alarm : left[x] # 0
    /\ ringing' = FALSE
    /\ UNCHANGED <<asked, every, left, bell, again>>

Next ==
    \/ Advance \/ Silence \/ Quiet
    \/ \E x \in Alarm : Set(x) \/ Stop(x) \/ Ask(x) \/ Ring(x)

Spec == Init /\ [][Next]_vars
=============================================================================
