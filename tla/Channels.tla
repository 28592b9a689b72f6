------------------------------ MODULE Channels ------------------------------
(* The notification channels of the households over REST and their test     *)
(* sends (server/notifications.rs, storage/notification_channels.rs, the     *)
(* transport of the notifier).                                               *)
(*                                                                           *)
(* A test is a process; one action is one SQL statement or the exchange with *)
(* the target.  test[p] holds the row that was read, the contact of the      *)
(* owner and the instant the request captured.  The addresses a name         *)
(* resolves to, and the key the operator gives, change over time.  The cron  *)
(* that sends to the same channels is ReminderDelivery.                      *)
EXTENDS RateLimit, ChannelConfig

CONSTANTS Homes, ChannelIds, TestProcs, CipherKeys,
          Wanted,              \* what clients may register: records [kind, config]
          OwnerLanguage, NoOne, \* the language of the owner of each household
          Resolutions,         \* the sets of addresses a name may resolve to
          MaxTests, TestWindow,
          MaxInstant, MaxChannelOps, MaxTestsAsked, MaxOutages

ASSUME ChannelsAssumption ==
  /\ NoOne \notin Homes
  /\ CipherKeys # {} /\ NoKey \notin CipherKeys
  /\ \A want \in Wanted : want.kind \in Kinds
  /\ IsFiniteSet(TestProcs)
  /\ MaxTests \in Nat \ {0} /\ TestWindow \in Nat /\ MaxInstant \in Nat

NoChannel == [home |-> NoOne, kind |-> "none", config |-> <<>>, entered |-> <<>>]

VARIABLES
  channels, \* notification_channels by identifier; entered is what the client typed
  cipher,   \* the key of the running process, or NoKey
  tested,   \* notification_test_attempts
  test,     \* the tests at work
  instant,  \* the clock
  asked, testsAsked, outages,
  sent      \* history: what left for a target, and from which test

channelVars == <<channels, cipher, tested, test, instant, asked, testsAsked, outages, sent>>

NoTest == [pc |-> "idle", home |-> NoOne, row |-> NoChannel, contact |-> NoOne, now |-> 0, attempt |-> 0]

ChannelsInit ==
  /\ channels = [c \in ChannelIds |-> NoChannel]
  /\ cipher = CHOOSE key \in CipherKeys : TRUE
  /\ tested = {}
  /\ test = [p \in TestProcs |-> NoTest]
  /\ instant = 0 /\ asked = 0 /\ testsAsked = 0 /\ outages = 0
  /\ sent = {}

-----------------------------------------------------------------------------
(* Registration and removal: pure checks, then one statement.                *)

CreateChannel(home, want) ==
  /\ asked < MaxChannelOps
  /\ asked' = asked + 1
  /\ Accepted(want.kind, want.config, cipher)
  /\ \E c \in ChannelIds : channels[c] = NoChannel
  /\ LET c == CHOOSE free \in ChannelIds : channels[free] = NoChannel IN
     channels' = [channels EXCEPT ![c] =
          [home |-> home, kind |-> want.kind, entered |-> Validated(want.kind, want.config),
           config |-> Sealed(want.kind, home, Validated(want.kind, want.config), cipher)]]
  /\ UNCHANGED <<cipher, tested, test, instant, testsAsked, outages, sent>>

\* A channel of another household is as if it did not exist.
InHome(c, home) == channels[c] # NoChannel /\ channels[c].home = home

DeleteChannel(home, c) ==
  /\ asked < MaxChannelOps
  /\ asked' = asked + 1
  /\ InHome(c, home)
  /\ channels' = [channels EXCEPT ![c] = NoChannel]
  /\ UNCHANGED <<cipher, tested, test, instant, testsAsked, outages, sent>>

\* GET /notifications/channels.
Listed(home) == {[id |-> c, config |-> RowToDto(channels[c].config)] : c \in {d \in ChannelIds : InHome(d, home)}}

-----------------------------------------------------------------------------
(* POST /notifications/channels/{id}/test.                                   *)

TestAt(p, pc) == test[p].pc = pc

GetChannel(p, home, c) ==
  /\ TestAt(p, "idle")
  /\ testsAsked < MaxTestsAsked
  /\ testsAsked' = testsAsked + 1
  /\ InHome(c, home)
  /\ test' = [test EXCEPT ![p] = [NoTest EXCEPT !.pc = "contact", !.home = home, !.row = channels[c]]]
  /\ UNCHANGED <<channels, cipher, tested, instant, asked, outages, sent>>

\* The contact is read, the channel opened (or 422), the instant captured.
OwnerContact(p) ==
  /\ TestAt(p, "contact")
  /\ LET contact == OwnerLanguage[test[p].row.home] IN
     test' = IF ChannelFromRow(test[p].row, contact, cipher)
             THEN [test EXCEPT ![p].pc = "count", ![p].contact = contact, ![p].now = instant]
             ELSE [test EXCEPT ![p] = NoTest]
  /\ UNCHANGED <<channels, cipher, tested, instant, asked, testsAsked, outages, sent>>

TestsSinceMutant(home, now) == {a \in tested : a.home = home /\ a.at > now - 1}
TestsSince(home, now) == {a \in tested : a.home = home /\ InTestWindow(a.at, now, TestWindow)}

CountTests(p) ==
  /\ TestAt(p, "count")
  /\ test' = IF Cardinality(TestsSince(test[p].row.home, test[p].now)) >= MaxTests
             THEN [test EXCEPT ![p] = NoTest]
             ELSE [test EXCEPT ![p].pc = "record"]
  /\ UNCHANGED <<channels, cipher, tested, instant, asked, testsAsked, outages, sent>>


\* attempted_at is the clock of the database at the insert.
RecordTest(p) ==
  /\ TestAt(p, "record")
  /\ LET n == 1 + Cardinality(tested) IN
       /\ tested' = tested \cup {[id |-> n, home |-> test[p].row.home, at |-> instant]}
       /\ test' = [test EXCEPT ![p].pc = "send", ![p].attempt = n]
  /\ UNCHANGED <<channels, cipher, instant, asked, testsAsked, outages, sent>>

\* The address that is contacted: of what the name resolves to at this moment for
\* HTTP, the public ones only; a literal address and an SMTP relay as they are.
Contacted(row) ==
  IF row.kind = "email" THEN {"relay"}
  ELSE IF row.kind \in {"webhook", "discord", "gotify"} /\ row.config["url"].text = "public" THEN {"literal"}
  ELSE UNION {PublicOnly(r) : r \in Resolutions}

\* The exchange with the target; whatever it answers, the test is over.  When
\* nothing public is resolved, or no connection is made, nothing leaves.
SendTest(p) ==
  /\ TestAt(p, "send")
  /\ LET row == test[p].row
         o == Opened(row, cipher) IN
     \/ \E a \in Contacted(row) :
          sent' = sent \cup {[row |-> row, home |-> test[p].home, address |-> a, attempt |-> test[p].attempt,
                              message |-> Message(row.kind, o, test[p].contact)]}
     \/ UNCHANGED sent
  /\ test' = [test EXCEPT ![p] = NoTest]
  /\ UNCHANGED <<channels, cipher, tested, instant, asked, testsAsked, outages>>

-----------------------------------------------------------------------------
(* Around the requests.                                                      *)

\* A statement fails (500) or the connection of the client ends: nothing more is done.
Abort(p) ==
  /\ ~TestAt(p, "idle")
  /\ outages < MaxOutages
  /\ outages' = outages + 1
  /\ test' = [test EXCEPT ![p] = NoTest]
  /\ UNCHANGED <<channels, cipher, tested, instant, asked, testsAsked, sent>>

\* The process is restarted, with the same key, another or none.
RestartWith(key) ==
  /\ outages < MaxOutages
  /\ outages' = outages + 1
  /\ cipher' = key
  /\ test' = [p \in TestProcs |-> NoTest]
  /\ UNCHANGED <<channels, tested, instant, asked, testsAsked, sent>>

PassInstant ==
  /\ instant < MaxInstant
  /\ instant' = instant + 1
  /\ UNCHANGED <<channels, cipher, tested, test, asked, testsAsked, outages, sent>>

TestStep(p) ==
  \/ \E home \in Homes, c \in ChannelIds : GetChannel(p, home, c)
  \/ OwnerContact(p) \/ CountTests(p) \/ RecordTest(p) \/ SendTest(p) \/ Abort(p)

ChannelsNext ==
  \/ \E home \in Homes, want \in Wanted : CreateChannel(home, want)
  \/ \E home \in Homes, c \in ChannelIds : DeleteChannel(home, c)
  \/ \E p \in TestProcs : TestStep(p)
  \/ \E key \in CipherKeys \cup {NoKey} : RestartWith(key)
  \/ PassInstant

ChannelsSpec == ChannelsInit /\ [][ChannelsNext]_channelVars

-----------------------------------------------------------------------------
(* Properties.                                                               *)

\* The values of the variables; no stored field is one that was refused.
ChannelsTypeOK ==
  /\ \A c \in ChannelIds : channels[c] # NoChannel =>
       /\ channels[c].home \in Homes /\ channels[c].kind \in Kinds
       /\ \A f \in DOMAIN channels[c].config : channels[c].config[f].text # Refused
  /\ cipher \in CipherKeys \cup {NoKey}
  /\ \A a \in tested : a.home \in Homes /\ a.at \in 0..MaxInstant
  /\ \A p \in TestProcs : test[p].pc \in {"idle", "contact", "count", "record", "send"}

\* A secret is never stored in the clear, nor shown: each is sealed for its own
\* household, kind and field, and a list shows the same mark for all of them
\* (create_notification_channel, row_to_dto, notifications.rs).
SecretsKept ==
  /\ \A c \in ChannelIds : \A f \in SecretsOf(channels[c].config) :
       LET v == channels[c].config[f] IN
       v.key \in CipherKeys /\ v.aad = <<channels[c].home, channels[c].kind, f>>
  /\ \A home \in Homes : \A shown \in Listed(home) : \A f \in SecretsOf(shown.config) :
       shown.config[f] = Redacted

\* A target never receives anything else than what its owner typed: no sealed
\* value, no secret of another channel, whatever key the process was restarted
\* with between the registration and the send (channel_from_row, reminders.rs).
SentAsEntered ==
  \A s \in sent :
    LET e == s.row.entered IN
    /\ s.message.to \in {"api.telegram.org", "api.pushover.net"} \/ \E f \in {"url", "host"} \cap DOMAIN e : s.message.to = e[f]
    /\ \A f \in SecretsOf(e) : \E i \in DOMAIN s.message.bears : s.message.bears[i] = e[f]
    /\ \A i \in DOMAIN s.message.bears : \E f \in DOMAIN e : s.message.bears[i] = e[f]

\* A test reaches only a channel of the household that asked for it, and over
\* HTTP only an address that was public when the name was resolved for that very
\* send (PublicOnlyResolver, notifier/lib.rs).
SentToOwnTarget ==
  \A s \in sent : s.row.home = s.home /\ (s.address \in {"literal", "relay"} \/ IpIsPublic(s.address))

\* The three together: what the owner entered is sealed in its place, shown to
\* nobody, and sent as it is to the owner's target.
ConfigurationKept == SecretsKept /\ SentAsEntered /\ SentToOwnTarget

\* The attempt is counted, then recorded, by two statements: tests that start
\* together pass the limit together, but in any window a household sends no more
\* than the limit and the tests at work (test_notification_channel).
TestSendsBounded ==
  \A home \in Homes :
    Cardinality({a \in tested : a.home = home /\ a.at >= instant - TestWindow}) <= MaxTests - 1 + Cardinality(TestProcs)

\* What the limit does not see is never sent: each test that leaves has an attempt
\* of its own, stored before it left (record_test_attempt, then send).
SentWasRecorded ==
  /\ \A s \in sent : \E a \in tested : a.id = s.attempt /\ a.home = s.row.home
  /\ \A s, u \in sent : s.attempt = u.attempt => s = u

\* Both together: no send escapes the count, and what is counted stays bounded.
TestsLimited == TestSendsBounded /\ SentWasRecorded
=============================================================================
