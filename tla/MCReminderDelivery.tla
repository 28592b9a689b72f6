------------------------- MODULE MCReminderDelivery -------------------------
(* Instances of ReminderDelivery for TLC. *)
EXTENDS ReminderDelivery, TLC

CONSTANTS h1, h2, s1, s2, c1, c2, i1, i2

\* One household, two subscriptions, one channel.
TwoSubs == {s1, s2}
SubsOfOne == [s \in TwoSubs |-> h1]
OneChanHome == [c \in {c1} |-> h1]
TwoChanHome == [c \in {c1, c2} |-> h1]

\* Two households, each with a subscription and a channel.
TwoHomes == {h1, h2}
SubPerHome == [s \in TwoSubs |-> IF s = s1 THEN h1 ELSE h2]
ChanPerHome == [c \in {c1, c2} |-> IF c = c1 THEN h1 ELSE h2]

\* With a lead of one day both occurrences trigger on day 0.
SameDay == {[sub |-> s, kind |-> "payment", due |-> 1] : s \in TwoSubs}

\* A payment of s1 triggers on day 0, a payment and the end of the trial of s2 on day 1.
TwoDays == {[sub |-> s1, kind |-> "payment", due |-> 1],
            [sub |-> s2, kind |-> "payment", due |-> 2],
            [sub |-> s2, kind |-> "trial_ending", due |-> 2]}

\* One occurrence per day.
OneSub == {s1}
OneSubHome == [s \in OneSub |-> h1]
OnePerDay == {[sub |-> s1, kind |-> "payment", due |-> 1],
              [sub |-> s1, kind |-> "trial_ending", due |-> 2]}

\* A run is cut after the outbox row is open: while it sends or retries.
AfterOpen == {"next", "send", "note", "retry", "renote"}

Retrying == {"retry", "renote"}

\* The policy's delays, compressed.
OneDelay == <<1>>
ShortDelays == <<1, 2>>

InstSymmetry == Permutations({i1, i2})
=============================================================================
