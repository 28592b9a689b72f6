---------------------------- MODULE MCHousehold ----------------------------
(* Accounts, Channels, Forms and Catalogue for TLC.  They share no state: one *)
(* of them, the focus, moves in a behaviour, and the states add up instead of *)
(* multiplying.                                                              *)
EXTENDS Accounts, Channels, Forms, Catalogue, TLC

CONSTANTS ann, bob, cyd, old, new1, new2, bad, short, p1, p2, t0, t1, t2, tb, d0, d1, ip,
          h1, h2, ch1, ch2, c1, c2, c3, y1, m1, s1, s2

VARIABLE focus

-----------------------------------------------------------------------------
(* Accounts: ann, with a session and a device; bob, with a session; cyd signs *)
(* up.                                                                       *)

Ask0 == [kind |-> "read", email |-> None, ip |-> None, password |-> None, new |-> None,
         cookie |-> None, bearer |-> None, target |-> None, language |-> None]

MCRequests == {
  [Ask0 EXCEPT !.kind = "login", !.email = ann, !.ip = ip, !.password = old],
  [Ask0 EXCEPT !.kind = "login", !.email = ann, !.ip = ip, !.password = bad],
  [Ask0 EXCEPT !.kind = "pair", !.email = ann, !.password = old],
  [Ask0 EXCEPT !.kind = "change", !.cookie = t0, !.password = old, !.new = new1],
  [Ask0 EXCEPT !.kind = "change", !.bearer = d0, !.password = old, !.new = new2],
  [Ask0 EXCEPT !.kind = "logout", !.cookie = t0],
  [Ask0 EXCEPT !.kind = "revoke", !.cookie = tb, !.target = d0],
  [Ask0 EXCEPT !.kind = "revoke", !.bearer = d0, !.target = d0],
  [Ask0 EXCEPT !.cookie = t0, !.bearer = d0],
  [Ask0 EXCEPT !.kind = "signup", !.email = cyd, !.new = short],
  [Ask0 EXCEPT !.kind = "signup", !.email = cyd, !.new = new1, !.language = "fr"]}

MCAccounts == [e \in Emails |-> IF e = cyd THEN Nobody ELSE [hash |-> old, epoch |-> 0, language |-> "en"]]
Session(e) == [email |-> e, expires |-> 1, epoch |-> 0, late |-> FALSE]
MCSessions == [t \in Tokens |-> CASE t = t0 -> Session(ann) [] t = tb -> Session(bob) [] OTHER -> NoSession]
MCDevices == [d \in Devices |-> IF d = d0 THEN [email |-> ann, epoch |-> 0, late |-> FALSE] ELSE NoDevice]

-----------------------------------------------------------------------------
(* Channels: a server with a token and a form that is refused; names that    *)
(* resolve to an internal address as well as to a public one.                *)

MCWanted == {
  [kind |-> "gotify", config |-> [url |-> "name", token |-> "spaced text"]],
  [kind |-> "pushover", config |-> [user_key |-> "text", token |-> "blank"]]}
MCOwnerLanguage == [h \in Homes |-> IF h = h1 THEN "fr" ELSE "en"]
MCResolutions == {{"private", "public"}, {"loopback"}}

-----------------------------------------------------------------------------
(* Forms: every class a field of each kind may hold, with a key and without.  *)

Bodies == [
  webhook |-> [url : {"absent", "number", "empty", "name", "public", "internal", "localhost", "ftp"}],
  email |-> [host : {"absent", "empty", "text"}, port : {"absent", "number", "port", "port 0", "port 65536"},
             username : {"absent", "empty", "text"}, from : {"absent", "text", "mailbox"},
             password : {"absent", "empty", "text", "marked", "spaced mark"}],
  telegram |-> [bot_token : {"absent", "blank", "text", "bot token"}, chat_id : {"absent", "blank", "spaced text"}],
  discord |-> [url : {"absent", "name", "internal"}, username : {"absent", "blank", "spaced text"},
               avatar_url : {"absent", "blank", "ftp", "name"}],
  gotify |-> [url : {"name", "localhost"}, token : {"absent", "blank", "spaced text", "spaced mark"}],
  pushover |-> [user_key : {"absent", "text", "marked"}, token : {"blank", "text", "spaced mark"}]]
MCAskedForms ==
  UNION {{[kind |-> kind, config |-> body, key |-> key] : body \in Bodies[kind], key \in {"k1", NoKey}} : kind \in Kinds}

-----------------------------------------------------------------------------
(* Catalogue: h1 has a category, a payer and a subscription of that payer;   *)
(* the envelopes come from another instance, where "a" is c2.                *)

MCRows == [i \in Ids |->
  CASE i = c1 -> [Gone EXCEPT !.home = h1, !.name = "a"]
    [] i = y1 -> [Gone EXCEPT !.home = h1, !.name = "a"]
    [] i = s1 -> [Gone EXCEPT !.home = h1, !.ref = y1, !.held = TRUE]
    [] OTHER -> Gone]
Line(id, ref) == [id |-> id, ref |-> ref, valid |-> TRUE]
Envelope(ref) == [currency |-> "EUR", methods |-> <<[id |-> m1, name |-> "a"]>>, subs |-> <<Line(s2, ref)>>,
                  cats |-> <<[id |-> c2, name |-> "a"], [id |-> c3, name |-> "b"]>>]
\* Edited by hand: every kind of line that is refused, and sound ones after them.
Damaged == [currency |-> "XXX", methods |-> <<[id |-> NotAnId, name |-> "a"], [id |-> m1, name |-> Blank]>>,
            subs |-> <<Line(NotAnId, c3), [Line(s1, c3) EXCEPT !.valid = FALSE], Line(s2, NotAnId), Line(s2, c3)>>,
            cats |-> <<[id |-> NotAnId, name |-> "b"], [id |-> c3, name |-> "a"], [id |-> c2, name |-> Blank]>>]
MCBundles == {Envelope(c2), Envelope(c3), Damaged}

-----------------------------------------------------------------------------
Init ==
  /\ AccountsInit /\ ChannelsInit /\ FormsInit /\ CatalogueInit
  /\ focus \in {"accounts", "channels", "forms", "catalogue"}

Next ==
  \/ focus = "accounts" /\ AccountsNext /\ UNCHANGED <<focus, channelVars, form, catalogueVars>>
  \/ focus = "channels" /\ ChannelsNext /\ UNCHANGED <<focus, accountVars, form, catalogueVars>>
  \/ focus = "forms" /\ PostForm /\ UNCHANGED <<focus, accountVars, channelVars, catalogueVars>>
  \/ focus = "catalogue" /\ CatalogueNext /\ UNCHANGED <<focus, accountVars, channelVars, form>>

Spec == Init /\ [][Next]_<<focus, accountVars, channelVars, form, catalogueVars>>

-----------------------------------------------------------------------------
(* Properties of the parts together.                                         *)

\* Every variable of the household keeps its type, and its names stay unique.
HouseholdTypeOK == AccountsTypeOK /\ ChannelsTypeOK /\ CatalogueTypeOK

\* What disappears was ended or deleted by the one it belongs to: sessions,
\* devices, and the rows of a household (auth.rs; delete, the repositories).
OnlyByItsOwner == [][EndsOnlyByItsOwner /\ DeletedByItsOwner]_<<accountVars, catalogueVars>>

Alike == Permutations(Procs)
=============================================================================
