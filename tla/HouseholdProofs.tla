--------------------------- MODULE HouseholdProofs ---------------------------
(* Theorems about Channels and Forms, for every value of their constants,     *)
(* then the parts of a household together: each one keeps its specification,  *)
(* and with it all that its own theorems say.                                 *)
EXTENDS MCHousehold, AccountsProofs, CatalogueProofs

-----------------------------------------------------------------------------
(* What the validators, the seal and the reader make of a configuration. *)

\* The fields of a kind, whatever is typed in them.
LEMMA FieldsOfKind ==
  ASSUME NEW kind, NEW c
  PROVE  /\ kind = "webhook" => DOMAIN Validated(kind, c) = {"url"}
         /\ kind = "email" => DOMAIN Validated(kind, c) = {"host", "port", "username", "password", "from"}
         /\ kind = "telegram" => DOMAIN Validated(kind, c) = {"bot_token", "chat_id"}
         /\ kind = "discord" => DOMAIN Validated(kind, c) = {"url", "username", "avatar_url"}
         /\ kind = "gotify" => DOMAIN Validated(kind, c) = {"url", "token"}
         /\ kind = "pushover" => DOMAIN Validated(kind, c) = {"user_key", "token"}
  BY DEF Validated, ValidateWebhook, ValidateEmail, ValidateTelegram, ValidateDiscord, ValidateGotify, ValidatePushover

\* Six kinds, each with its record.
LEMMA ValidatedIsFunction ==
  ASSUME NEW kind \in Kinds, NEW c
  PROVE  Validated(kind, c) = [f \in DOMAIN Validated(kind, c) |-> Validated(kind, c)[f]]
  BY DEF Kinds, Validated, ValidateWebhook, ValidateEmail, ValidateTelegram, ValidateDiscord, ValidateGotify, ValidatePushover

\* A row that a key opens without an unreadable field gives what was sealed.
LEMMA OpenedIsEntered ==
  ASSUME NEW v, v = [f \in DOMAIN v |-> v[f]], NEW home, NEW kind, NEW key, NEW row, NEW other,
         row.home = home, row.kind = kind, row.config = Sealed(kind, home, v, key),
         SecretsOf(v) # {} => key # NoKey,
         \A f \in DOMAIN v : Opened(row, other)[f] # Unreadable
  PROVE  Opened(row, other) = v
<1>1. DOMAIN row.config = DOMAIN v
  BY DEF Sealed
<1>2. ASSUME NEW f \in DOMAIN v PROVE Opened(row, other)[f] = v[f]
  <2>1. CASE f \notin SecretKeys
    BY <1>1, <2>1 DEF Opened, Sealed, Plain, Stored
  <2>2. CASE f \in SecretKeys
    <3>1. key # NoKey
      BY <2>2 DEF SecretsOf
    <3>2. row.config[f] = [text |-> v[f], key |-> key, aad |-> <<home, kind, f>>]
      BY <2>2 DEF Sealed, Encrypt, ChannelSecretAad
    <3>3. Opened(row, other)[f] = Secret(row, f, other)
      BY <1>1, <2>2 DEF Opened
    <3>4. Secret(row, f, other) # Unreadable
      BY <3>3
    <3>5. QED
      BY <3>1, <3>2, <3>3, <3>4 DEF Secret, IsEncrypted, Decrypt
  <2>3. QED
    BY <2>1, <2>2
<1>3. Opened(row, other) = [f \in DOMAIN v |-> Opened(row, other)[f]]
  BY <1>1 DEF Opened
<1>4. QED
  BY <1>2, <1>3

\* What a channel sends bears what was entered, each secret of it, and goes where it says.
Entered(m, e) ==
  /\ m.to \in {"api.telegram.org", "api.pushover.net"} \/ \E f \in {"url", "host"} \cap DOMAIN e : m.to = e[f]
  /\ \A f \in SecretsOf(e) : \E i \in DOMAIN m.bears : m.bears[i] = e[f]
  /\ \A i \in DOMAIN m.bears : \E f \in DOMAIN e : m.bears[i] = e[f]

\* A message carries what was validated, in the fields of its kind.
LEMMA MessageIsEntered ==
  ASSUME NEW kind \in Kinds, NEW c, NEW language
  PROVE  Entered(Message(kind, Validated(kind, c), language), Validated(kind, c))
<1> DEFINE e == Validated(kind, c)
           m == Message(kind, e, language)
<1> SUFFICES Entered(m, e)
  OBVIOUS
<1> HIDE DEF e
<1>1. CASE kind = "webhook"
  <2>1. m.to = e["url"] /\ m.bears = <<>> /\ DOMAIN e = {"url"}
    BY <1>1, FieldsOfKind DEF Message, Webhook, e
  <2>2. QED
    BY <2>1 DEF Entered, SecretsOf, SecretKeys
<1>2. CASE kind = "email"
  <2>1. m.to = e["host"] /\ m.bears = <<e["username"], e["password"]>> /\ DOMAIN e = {"host", "port", "username", "password", "from"}
    BY <1>2, FieldsOfKind DEF Message, Email, e
  <2>2. QED
    BY <2>1 DEF Entered, SecretsOf, SecretKeys
<1>3. CASE kind = "telegram"
  <2>1. m.to = "api.telegram.org" /\ m.bears = <<e["bot_token"], e["chat_id"]>> /\ DOMAIN e = {"bot_token", "chat_id"}
    BY <1>3, FieldsOfKind DEF Message, Telegram, e
  <2>2. QED
    BY <2>1 DEF Entered, SecretsOf, SecretKeys
<1>4. CASE kind = "discord"
  <2>1. m.to = e["url"] /\ m.bears = <<e["username"], e["avatar_url"]>> /\ DOMAIN e = {"url", "username", "avatar_url"}
    BY <1>4, FieldsOfKind DEF Message, Discord, e
  <2>2. QED
    BY <2>1 DEF Entered, SecretsOf, SecretKeys
<1>5. CASE kind = "gotify"
  <2>1. m.to = e["url"] /\ m.bears = <<e["token"]>> /\ DOMAIN e = {"url", "token"}
    BY <1>5, FieldsOfKind DEF Message, Gotify, e
  <2>2. QED
    BY <2>1 DEF Entered, SecretsOf, SecretKeys
<1>6. CASE kind = "pushover"
  <2>1. m.to = "api.pushover.net" /\ m.bears = <<e["token"], e["user_key"]>> /\ DOMAIN e = {"user_key", "token"}
    BY <1>6, FieldsOfKind DEF Message, Pushover, e
  <2>2. QED
    BY <2>1 DEF Entered, SecretsOf, SecretKeys
<1>7. QED
  BY <1>1, <1>2, <1>3, <1>4, <1>5, <1>6 DEF Kinds

\* With the key that sealed it, a configuration is opened as it was entered.
LEMMA OwnKeyOpens ==
  ASSUME NEW v, v = [f \in DOMAIN v |-> v[f]], NEW home, NEW kind, NEW key, NEW row,
         row.home = home, row.kind = kind, row.config = Sealed(kind, home, v, key),
         SecretsOf(v) # {} => key # NoKey
  PROVE  /\ Opened(row, key) = v
         /\ \A f \in DOMAIN v : row.config[f].text = v[f]
<1>1. DOMAIN row.config = DOMAIN v
  BY DEF Sealed
<1>2. ASSUME NEW f \in DOMAIN v PROVE Opened(row, key)[f] = v[f] /\ row.config[f].text = v[f]
  <2>1. CASE f \notin SecretKeys
    BY <1>1, <2>1 DEF Opened, Sealed, Plain, Stored
  <2>2. CASE f \in SecretKeys
    <3>1. key # NoKey
      BY <2>2 DEF SecretsOf
    <3>2. row.config[f] = [text |-> v[f], key |-> key, aad |-> <<home, kind, f>>]
      BY <2>2 DEF Sealed, Encrypt, ChannelSecretAad
    <3>3. Opened(row, key)[f] = Secret(row, f, key)
      BY <1>1, <2>2 DEF Opened
    <3>4. QED
      BY <3>1, <3>2, <3>3 DEF Secret, IsEncrypted, Decrypt, ChannelSecretAad
  <2>3. QED
    BY <2>1, <2>2
<1>3. Opened(row, key) = [f \in DOMAIN v |-> Opened(row, key)[f]]
  BY <1>1 DEF Opened
<1>4. QED
  BY <1>2, <1>3

\* What was accepted is there wherever the reader needs it.
LEMMA AcceptedFields ==
  ASSUME NEW kind \in Kinds, NEW c, NEW key, Accepted(kind, c, key),
         \A f \in DOMAIN Validated(kind, c) : c[f] # Unreadable
  PROVE  LET v == Validated(kind, c) IN
         /\ \A f \in DOMAIN v : v[f] # Unreadable /\ (f \notin {"username", "avatar_url"} => v[f] # "absent")
         /\ \A f \in {"url"} \cap DOMAIN v : v[f] \in {"name", "public"}
         /\ kind = "email" => v["port"] = "port" /\ v["from"] = "mailbox" /\
              \A f \in DOMAIN v : v[f] # "absent" /\ v[f] \notin {"number", "port 65536"}
<1> DEFINE v == Validated(kind, c)
<1>1. \A f \in DOMAIN v : v[f] # Refused
  BY DEF Accepted
<1>2. \A x : x # Unreadable => NonEmptyString(x) # Unreadable
  BY DEF NonEmptyString, Trimmed, Unreadable
<1>3. \A x : Needed(x) # Refused => Needed(x) = NonEmptyString(x) /\ NonEmptyString(x) # "absent"
  BY DEF Needed, Require
<1>4. \A x, a : Require(x, a) # Refused => Require(x, a) = x /\ a
  BY DEF Require
<1>5. \A x : WebhookUrlIsSafe(x) => x \in {"name", "public"}
  BY DEF WebhookUrlIsSafe, IsHttpUrl
<1>6. \A f \in DOMAIN v : c[f] # Unreadable
  OBVIOUS
<1>7. "name" # "absent" /\ "public" # "absent" /\ "bot token" # "absent"
  OBVIOUS
<1>8. CASE kind = "webhook"
  <2>1. DOMAIN v = {"url"} /\ v["url"] = Require(c["url"], WebhookUrlIsSafe(c["url"]))
    BY <1>8, FieldsOfKind DEF Validated, ValidateWebhook
  <2> HIDE DEF v
  <2>2. v["url"] = c["url"] /\ v["url"] \in {"name", "public"}
    BY <1>1, <1>4, <1>5, <2>1
  <2>3. QED
    BY <1>6, <1>7, <1>8, <2>1, <2>2 DEF v
<1>9. CASE kind = "email"
  <2>1. /\ DOMAIN v = {"host", "port", "username", "password", "from"}
        /\ v["host"] = Require(c["host"], IsString(c["host"]) /\ c["host"] # "empty")
        /\ v["port"] = Require(c["port"], c["port"] = "port")
        /\ v["username"] = Require(c["username"], IsString(c["username"]))
        /\ v["password"] = Require(c["password"], IsString(c["password"]))
        /\ v["from"] = Require(c["from"], c["from"] = "mailbox")
    BY <1>9, FieldsOfKind DEF Validated, ValidateEmail
  <2> HIDE DEF v
  <2>2. /\ v["host"] = c["host"] /\ IsString(c["host"])
        /\ v["username"] = c["username"] /\ IsString(c["username"])
        /\ v["password"] = c["password"] /\ IsString(c["password"])
        /\ v["port"] = c["port"] /\ c["port"] = "port"
        /\ v["from"] = c["from"] /\ c["from"] = "mailbox"
    BY <1>1, <2>1 DEF Require
  <2>3. \A x : IsString(x) => x # "absent" /\ x \notin {"number", "port 65536"}
    BY DEF IsString, Numbers
  <2>4. \A f \in DOMAIN v : v[f] # "absent" /\ v[f] \notin {"number", "port 65536"} /\ v[f] # Unreadable
    <3>1. \A f \in DOMAIN v : v[f] = c[f]
      BY <2>1, <2>2
    <3>2. \A f \in DOMAIN v : v[f] # "absent" /\ v[f] \notin {"number", "port 65536"}
      BY <2>1, <2>2, <2>3
    <3>3. QED
      BY <1>6, <3>1, <3>2 DEF v
  <2>5. v["port"] = "port" /\ v["from"] = "mailbox" /\ "url" \notin DOMAIN v
    BY <2>1, <2>2
  <2>6. QED
    BY <2>4, <2>5 DEF v
<1>10. CASE kind = "telegram"
  <2>1. /\ DOMAIN v = {"bot_token", "chat_id"}
        /\ v["bot_token"] = Require(NonEmptyString(c["bot_token"]), TelegramBotTokenIsValid(NonEmptyString(c["bot_token"])))
        /\ v["chat_id"] = Needed(c["chat_id"])
    BY <1>10, FieldsOfKind DEF Validated, ValidateTelegram
  <2> HIDE DEF v
  <2>2. v["bot_token"] = "bot token" /\ v["chat_id"] = NonEmptyString(c["chat_id"]) /\ v["chat_id"] # "absent"
    BY <1>1, <1>3, <2>1 DEF TelegramBotTokenIsValid, Require
  <2>3. v["chat_id"] # Unreadable /\ "bot token" # Unreadable
    BY <1>2, <1>6, <2>1, <2>2 DEF Unreadable
  <2>4. QED
    BY <1>7, <1>10, <2>1, <2>2, <2>3 DEF v
<1>11. CASE kind = "discord"
  <2>1. /\ DOMAIN v = {"url", "username", "avatar_url"}
        /\ v["url"] = Require(c["url"], WebhookUrlIsSafe(c["url"]))
        /\ v["username"] = NonEmptyString(c["username"])
        /\ v["avatar_url"] = Require(NonEmptyString(c["avatar_url"]),
             NonEmptyString(c["avatar_url"]) = "absent" \/ IsHttpUrl(NonEmptyString(c["avatar_url"])))
    BY <1>11, FieldsOfKind DEF Validated, ValidateDiscord
  <2> HIDE DEF v
  <2>2. /\ v["url"] = c["url"] /\ v["url"] \in {"name", "public"}
        /\ v["avatar_url"] = NonEmptyString(c["avatar_url"])
    BY <1>1, <1>4, <1>5, <2>1
  <2>3. v["url"] # Unreadable /\ v["username"] # Unreadable /\ v["avatar_url"] # Unreadable
    BY <1>2, <1>6, <2>1, <2>2
  <2>4. QED
    BY <1>7, <1>11, <2>1, <2>2, <2>3 DEF v
<1>12. CASE kind = "gotify"
  <2>1. DOMAIN v = {"url", "token"} /\ v["url"] = Require(c["url"], WebhookUrlIsSafe(c["url"])) /\ v["token"] = Needed(c["token"])
    BY <1>12, FieldsOfKind DEF Validated, ValidateGotify
  <2> HIDE DEF v
  <2>2. /\ v["url"] = c["url"] /\ v["url"] \in {"name", "public"}
        /\ v["token"] = NonEmptyString(c["token"]) /\ v["token"] # "absent"
    BY <1>1, <1>3, <1>4, <1>5, <2>1
  <2>3. v["url"] # Unreadable /\ v["token"] # Unreadable
    BY <1>2, <1>6, <2>1, <2>2
  <2>4. QED
    BY <1>7, <1>12, <2>1, <2>2, <2>3 DEF v
<1>13. CASE kind = "pushover"
  <2>1. DOMAIN v = {"user_key", "token"} /\ v["user_key"] = Needed(c["user_key"]) /\ v["token"] = Needed(c["token"])
    BY <1>13, FieldsOfKind DEF Validated, ValidatePushover
  <2> HIDE DEF v
  <2>2. /\ v["user_key"] = NonEmptyString(c["user_key"]) /\ v["user_key"] # "absent"
        /\ v["token"] = NonEmptyString(c["token"]) /\ v["token"] # "absent"
    BY <1>1, <1>3, <2>1
  <2>3. v["user_key"] # Unreadable /\ v["token"] # Unreadable
    BY <1>2, <1>6, <2>1, <2>2
  <2>4. QED
    BY <1>13, <2>1, <2>2, <2>3 DEF v
<1>14. QED
  BY <1>8, <1>9, <1>10, <1>11, <1>12, <1>13 DEF Kinds

-----------------------------------------------------------------------------
(* Forms. *)

\* A row comes from an accepted form, sealed with its key.
FormKept ==
  form.row # NoForm =>
    /\ form.asked \in AskedForms
    /\ Accepted(form.asked.kind, form.asked.config, form.asked.key)
    /\ form.row = [kind |-> form.asked.kind, home |-> "home",
                   config |-> Sealed(form.asked.kind, "home", Validated(form.asked.kind, form.asked.config), form.asked.key)]

\* A form whose row is what FormKept says works.
LEMMA FormWorks == FormKept => AcceptedFormsWork
<1> DEFINE kind == form.asked.kind
           c == form.asked.config
           key == form.asked.key
           row == form.row
           v == Validated(kind, c)
<1> SUFFICES ASSUME FormKept, row # NoForm
             PROVE  /\ ChannelFromRow(row, "fr", key)
                    /\ Opened(row, key) = v
                    /\ \A f \in {"url"} \cap DOMAIN Opened(row, key) : Opened(row, key)[f] \in {"name", "public"}
                    /\ kind = "email" => Opened(row, key)["port"] = "port" /\ Opened(row, key)["from"] = "mailbox"
  BY DEF AcceptedFormsWork
<1>1. kind \in Kinds /\ \A f \in DOMAIN v : c[f] # Unreadable
  BY FormsAssumption DEF FormKept
<1>2. Accepted(kind, c, key) /\ row.kind = kind /\ row.home = "home" /\ row.config = Sealed(kind, "home", v, key)
  BY DEF FormKept
<1>3. SecretsOf(v) # {} => key # NoKey
  BY <1>2 DEF Accepted
<1>4. v = [f \in DOMAIN v |-> v[f]]
  BY <1>1, ValidatedIsFunction
<1>5. Opened(row, key) = v /\ \A f \in DOMAIN v : row.config[f].text = v[f]
  <2> HIDE DEF v, row, kind, c, key
  <2>1. QED
    BY <1>2, <1>3, <1>4, OwnKeyOpens
<1>6. /\ \A f \in DOMAIN v : v[f] # Unreadable /\ (f \notin {"username", "avatar_url"} => v[f] # "absent")
      /\ \A f \in {"url"} \cap DOMAIN v : v[f] \in {"name", "public"}
      /\ kind = "email" => v["port"] = "port" /\ v["from"] = "mailbox" /\
           \A f \in DOMAIN v : v[f] # "absent" /\ v[f] \notin {"number", "port 65536"}
  BY <1>1, <1>2, AcceptedFields
<1>7. kind = "email" => EmailConfigFrom(row.config) /\ "fr" # Unreadable
  <2>1. kind = "email" => DOMAIN v = {"host", "port", "username", "password", "from"}
    BY FieldsOfKind
  <2> HIDE DEF v, row, kind, c, key
  <2>2. ASSUME kind = "email" PROVE EmailConfigFrom(row.config)
    <3>1. \A f \in DOMAIN v : row.config[f].text # "absent" /\ row.config[f].text \notin {"number", "port 65536"}
      BY <1>5, <1>6, <2>2
    <3>2. QED
      BY <2>1, <2>2, <3>1 DEF EmailConfigFrom
  <2>3. QED
    BY <2>2 DEF Unreadable
<1>8. ChannelFromRow(row, "fr", key)
  BY <1>1, <1>2, <1>5, <1>6, <1>7 DEF ChannelFromRow
<1>9. QED
  BY <1>5, <1>6, <1>8

\* A configuration that was accepted is opened again with the values that were
\* accepted, complete, and leads to no internal address.
THEOREM FormsWork == FormsSpec => []AcceptedFormsWork
<1>1. FormsInit => FormKept
  BY DEF FormsInit, FormKept
<1>2. FormKept /\ [PostForm]_form => FormKept'
  <2>1. ASSUME PostForm PROVE FormKept'
    <3>1. PICK f \in AskedForms :
            form' = [asked |-> f,
                     row |-> IF Accepted(f.kind, f.config, f.key)
                             THEN [kind |-> f.kind, home |-> "home",
                                   config |-> Sealed(f.kind, "home", Validated(f.kind, f.config), f.key)]
                             ELSE NoForm]
      BY <2>1 DEF PostForm
    <3>2. QED
      BY <3>1 DEF FormKept
  <2>2. QED
    BY <2>1 DEF FormKept
<1>3. QED
  BY <1>1, <1>2, FormWorks, PTL DEF FormsSpec

-----------------------------------------------------------------------------
(* Rows and tests. *)

\* The row that an accepted creation stores.
ChannelRow(home, want, key) ==
  [home |-> home, kind |-> want.kind, entered |-> Validated(want.kind, want.config),
   config |-> Sealed(want.kind, home, Validated(want.kind, want.config), key)]

ChannelRows ==
  {ChannelRow(x[1], x[2], x[3]) :
     x \in {y \in Homes \X Wanted \X (CipherKeys \cup {NoKey}) : Accepted(y[2].kind, y[2].config, y[3])}}

\* What the creation accepts is stored as a row.
LEMMA RowAccepted ==
  ASSUME NEW home \in Homes, NEW want \in Wanted, NEW key \in CipherKeys \cup {NoKey}, Accepted(want.kind, want.config, key)
  PROVE  ChannelRow(home, want, key) \in ChannelRows
<1> DEFINE x == <<home, want, key>>
<1>1. x \in Homes \X Wanted \X (CipherKeys \cup {NoKey}) /\ x[1] = home /\ x[2] = want /\ x[3] = key
  OBVIOUS
<1> HIDE DEF x
<1>2. QED
  BY <1>1 DEF ChannelRows

\* Every row comes from an accepted form.
LEMMA RowComes ==
  ASSUME NEW r \in ChannelRows
  PROVE  \E home \in Homes, want \in Wanted, key \in CipherKeys \cup {NoKey} :
           Accepted(want.kind, want.config, key) /\ r = ChannelRow(home, want, key)
  BY DEF ChannelRows

\* A row: what was entered, none of it refused, and the secrets sealed in their place.
LEMMA RowKept ==
  ASSUME NEW r \in ChannelRows
  PROVE  /\ r.home \in Homes /\ r.kind \in Kinds /\ r # NoChannel
         /\ \A f \in DOMAIN r.config : r.config[f].text # Refused
         /\ \A f \in SecretsOf(r.config) : r.config[f].key \in CipherKeys /\ r.config[f].aad = <<r.home, r.kind, f>>
<1>1. PICK home \in Homes, want \in Wanted, key \in CipherKeys \cup {NoKey} :
        Accepted(want.kind, want.config, key) /\ r = ChannelRow(home, want, key)
  BY RowComes
<1> DEFINE v == Validated(want.kind, want.config)
<1>2. r.home = home /\ r.kind = want.kind /\ r.config = Sealed(want.kind, home, v, key) /\ want.kind \in Kinds
  BY <1>1, ChannelsAssumption DEF ChannelRow
<1>3. (\A f \in DOMAIN v : v[f] # Refused) /\ (SecretsOf(v) # {} => key # NoKey)
  BY <1>1 DEF Accepted
<1> HIDE DEF v
<1>4. DOMAIN r.config = DOMAIN v
  BY <1>2 DEF Sealed
<1>5. ASSUME NEW f \in DOMAIN r.config PROVE r.config[f].text # Refused
  BY <1>2, <1>3, <1>4 DEF Sealed, Encrypt, Plain
<1>6. ASSUME NEW f \in SecretsOf(r.config) PROVE r.config[f].key \in CipherKeys /\ r.config[f].aad = <<r.home, r.kind, f>>
  <2>1. f \in SecretKeys /\ f \in DOMAIN v /\ key \in CipherKeys
    BY <1>3, <1>4, <1>6 DEF SecretsOf
  <2>2. QED
    BY <1>2, <2>1 DEF Sealed, Encrypt, ChannelSecretAad
<1>7. r # NoChannel
  BY <1>2, ChannelsAssumption DEF NoChannel
<1>8. QED
  BY <1>2, <1>5, <1>6, <1>7

\* What a row that opens sends is what was entered.
LEMMA RowSends ==
  ASSUME NEW r \in ChannelRows, NEW contact, NEW key, ChannelFromRow(r, contact, key)
  PROVE  Entered(Message(r.kind, Opened(r, key), contact), r.entered)
<1>1. PICK home \in Homes, want \in Wanted, sealing \in CipherKeys \cup {NoKey} :
        Accepted(want.kind, want.config, sealing) /\ r = ChannelRow(home, want, sealing)
  BY RowComes
<1> DEFINE kind == want.kind
           c == want.config
           v == Validated(kind, c)
<1>2. r.home = home /\ r.kind = kind /\ r.entered = v /\ r.config = Sealed(kind, home, v, sealing) /\ kind \in Kinds
  BY <1>1, ChannelsAssumption DEF ChannelRow
<1>3. SecretsOf(v) # {} => sealing # NoKey
  BY <1>1 DEF Accepted
<1>4. v = [f \in DOMAIN v |-> v[f]]
  BY <1>2, ValidatedIsFunction
<1>5. Entered(Message(kind, v, contact), v)
  BY <1>2, MessageIsEntered
<1> HIDE DEF v, kind, c
<1>6. \A f \in DOMAIN v : Opened(r, key)[f] # Unreadable
  <2>1. DOMAIN Opened(r, key) = DOMAIN v
    BY <1>2 DEF Opened, Sealed
  <2>2. QED
    BY <2>1 DEF ChannelFromRow
<1>7. Opened(r, key) = v
  BY <1>2, <1>3, <1>4, <1>6, OpenedIsEntered
<1>8. QED
  BY <1>2, <1>5, <1>7

\* Only what is public is contacted over HTTP.
LEMMA ContactedIsPublic ==
  ASSUME NEW row, NEW a \in Contacted(row)
  PROVE  a \in {"literal", "relay"} \/ IpIsPublic(a)
  BY DEF Contacted, PublicOnly

TestPlaces == {"idle", "contact", "count", "record", "send"}
Contacts == {OwnerLanguage[h] : h \in Homes} \cup {NoOne}
TestRecord == [pc : TestPlaces, home : Homes \cup {NoOne}, row : ChannelRows \cup {NoChannel}, contact : Contacts,
               now : Nat, attempt : Nat]

ChannelsTyped ==
  /\ channels \in [ChannelIds -> ChannelRows \cup {NoChannel}]
  /\ cipher \in CipherKeys \cup {NoKey}
  /\ instant \in 0..MaxInstant
  /\ IsFiniteSet(tested) /\ tested \subseteq [id : Nat, home : Homes, at : 0..MaxInstant]
  /\ test \in [TestProcs -> TestRecord]

CountedAs(attempt, home) == \E a \in tested : a.id = attempt /\ a.home = home

\* A test works on a row of its household, which the running key opens from the
\* contact on; it sends under the attempt it stored.
TestPlaced(q) ==
  /\ q.pc # "idle" => q.row \in ChannelRows /\ q.row.home = q.home
  /\ q.pc \in {"count", "record", "send"} => ChannelFromRow(q.row, q.contact, cipher) /\ q.now <= instant
  /\ q.pc = "send" => CountedAs(q.attempt, q.row.home)
TestsPlaced == \A p \in TestProcs : TestPlaced(test[p])

\* An attempt is stored under a number of its own, and sends once.
AttemptsApart ==
  /\ \A a \in tested : a.id <= Cardinality(tested)
  /\ \A p, q \in TestProcs : p # q /\ TestAt(p, "send") /\ TestAt(q, "send") => test[p].attempt # test[q].attempt
  /\ \A s \in sent, p \in TestProcs : TestAt(p, "send") => s.attempt # test[p].attempt
  /\ \A s, u \in sent : s.attempt = u.attempt => s = u

\* What was sent went to the owner's target, as entered, after it was counted.
SentKept(s) ==
  /\ s.row \in ChannelRows /\ s.row.home = s.home
  /\ Entered(s.message, s.row.entered)
  /\ s.address \in {"literal", "relay"} \/ IpIsPublic(s.address)
  /\ CountedAs(s.attempt, s.row.home)

\* The tests that passed the count and are not stored yet.
Recording(home) == {p \in TestProcs : TestAt(p, "record") /\ test[p].row.home = home}
TestsCounted ==
  \A home \in Homes :
    Cardinality(TestsSince(home, instant)) + Cardinality(Recording(home)) <= MaxTests - 1 + Cardinality(TestProcs)

ChannelsInv == ChannelsTyped /\ TestsPlaced /\ AttemptsApart /\ (\A s \in sent : SentKept(s)) /\ TestsCounted

-----------------------------------------------------------------------------
(* Counting. *)

\* A test at rest is a test, in its place.
LEMMA IdleTest == NoTest \in TestRecord /\ TestPlaced(NoTest) /\ NoTest.pc = "idle"
  BY DEF NoTest, TestRecord, TestPlaces, Contacts, TestPlaced

\* Windows that end later hold less.
LEMMA WindowCounts ==
  ASSUME ChannelsTyped, NEW home, NEW now \in Nat, NEW later \in Nat, now <= later
  PROVE  /\ IsFiniteSet(TestsSince(home, now)) /\ Cardinality(TestsSince(home, now)) \in Nat
         /\ TestsSince(home, later) \subseteq TestsSince(home, now)
         /\ Cardinality(TestsSince(home, later)) \in Nat
         /\ Cardinality(TestsSince(home, later)) <= Cardinality(TestsSince(home, now))
<1>1. IsFiniteSet(TestsSince(home, now)) /\ IsFiniteSet(TestsSince(home, later))
  BY FS_Subset DEF ChannelsTyped, TestsSince
<1>2. TestsSince(home, later) \subseteq TestsSince(home, now)
  <2>1. \A a \in tested : a.at \in Nat
    BY ChannelsAssumption DEF ChannelsTyped
  <2>2. QED
    BY <2>1, ChannelsAssumption DEF TestsSince, InTestWindow
<1>3. QED
  BY <1>1, <1>2, FS_Subset, FS_CardinalityType

\* The tests between their count and their record are finitely many.
LEMMA RecordingCounts ==
  ASSUME NEW home
  PROVE  /\ IsFiniteSet(Recording(home)) /\ Cardinality(Recording(home)) \in Nat
         /\ Cardinality(Recording(home)) <= Cardinality(TestProcs) /\ Cardinality(TestProcs) \in Nat
         /\ IsFiniteSet(Recording(home)') /\ Cardinality(Recording(home)') \in Nat
         /\ Cardinality(Recording(home)') <= Cardinality(TestProcs)
<1>1. Recording(home) \subseteq TestProcs /\ Recording(home)' \subseteq TestProcs
  BY DEF Recording
<1>2. QED
  BY <1>1, ChannelsAssumption, FS_Subset, FS_CardinalityType

\* The invariant holds at first.
LEMMA ChannelsInitInv == ChannelsInit => ChannelsInv
<1> SUFFICES ASSUME ChannelsInit PROVE ChannelsInv
  OBVIOUS
<1>1. ChannelsTyped
  <2>1. cipher \in CipherKeys
    BY ChannelsAssumption DEF ChannelsInit
  <2>2. IsFiniteSet(tested) /\ tested = {}
    BY FS_EmptySet DEF ChannelsInit
  <2>3. QED
    BY <2>1, <2>2, IdleTest, ChannelsAssumption DEF ChannelsInit, ChannelsTyped
<1>2. \A p \in TestProcs : test[p] = NoTest /\ ~TestAt(p, "send") /\ ~TestAt(p, "record")
  BY DEF ChannelsInit, TestAt, NoTest
<1>3. TestsPlaced
  BY <1>2, IdleTest DEF TestsPlaced
<1>4. AttemptsApart /\ \A s \in sent : SentKept(s)
  BY <1>2 DEF AttemptsApart, ChannelsInit
<1>5. TestsCounted
  <2>1. \A home : TestsSince(home, instant) = {} /\ Recording(home) = {}
    BY <1>2 DEF TestsSince, Recording, ChannelsInit
  <2>2. Cardinality(TestProcs) \in Nat /\ MaxTests - 1 \in Nat
    BY FS_CardinalityType, ChannelsAssumption
  <2>3. Cardinality({}) = 0
    BY FS_EmptySet
  <2>4. \A home : Cardinality(TestsSince(home, instant)) = 0 /\ Cardinality(Recording(home)) = 0
    BY <2>1, <2>3
  <2>5. 0 + 0 <= MaxTests - 1 + Cardinality(TestProcs)
    BY <2>2
  <2>6. QED
    BY <2>4, <2>5 DEF TestsCounted
<1>6. QED
  BY <1>1, <1>3, <1>4, <1>5 DEF ChannelsInv

-----------------------------------------------------------------------------
(* The steps. *)

\* A test that becomes q, and sends nothing yet.
LEMMA TestMoves ==
  ASSUME ChannelsInv, NEW p \in TestProcs, NEW q \in TestRecord, TestPlaced(q), q.pc # "send",
         q.pc = "record" => Cardinality(TestsSince(q.row.home, q.now)) < MaxTests,
         test' = [test EXCEPT ![p] = q], UNCHANGED <<channels, cipher, tested, instant, sent>>
  PROVE  ChannelsInv'
<1>1. /\ \A r \in TestProcs : test'[r] = IF r = p THEN q ELSE test[r]
      /\ test' \in [TestProcs -> TestRecord] /\ test \in [TestProcs -> TestRecord]
  BY DEF ChannelsInv, ChannelsTyped
<1>2. ChannelsTyped'
  BY <1>1 DEF ChannelsInv, ChannelsTyped
<1>3. TestsPlaced'
  <2>1. \A r \in TestProcs : TestPlaced(test'[r])
    BY <1>1 DEF ChannelsInv, TestsPlaced
  <2>2. QED
    BY <2>1 DEF TestsPlaced, TestPlaced, CountedAs
<1>4. AttemptsApart'
  <2>1. \A r \in TestProcs : TestAt(r, "send")' => r # p /\ TestAt(r, "send") /\ test'[r] = test[r]
    BY <1>1 DEF TestAt
  <2>2. QED
    BY <2>1 DEF ChannelsInv, AttemptsApart
<1>5. (\A s \in sent : SentKept(s))'
  BY DEF ChannelsInv, SentKept, CountedAs
<1>6. TestsCounted'
  <2> SUFFICES ASSUME NEW home \in Homes
               PROVE  Cardinality(TestsSince(home, instant)') + Cardinality(Recording(home)') <= MaxTests - 1 + Cardinality(TestProcs)
    BY DEF TestsCounted
  <2>1. TestsSince(home, instant)' = TestsSince(home, instant)
    BY DEF TestsSince
  <2>2. instant \in Nat /\ Cardinality(TestsSince(home, instant)) \in Nat
    <3>1. instant \in Nat
      BY ChannelsAssumption DEF ChannelsInv, ChannelsTyped
    <3>2. QED
      BY <3>1, WindowCounts DEF ChannelsInv
  <2>3. /\ Cardinality(Recording(home)) \in Nat /\ Cardinality(Recording(home)') \in Nat
        /\ Cardinality(Recording(home)') <= Cardinality(TestProcs) /\ Cardinality(TestProcs) \in Nat
        /\ IsFiniteSet(Recording(home))
    BY RecordingCounts
  <2>4. CASE q.pc = "record" /\ q.row.home = home
    <3>1. q.now <= instant /\ q.now \in Nat
      BY <2>4 DEF TestPlaced, TestRecord
    <3>2. /\ Cardinality(TestsSince(home, instant)) <= Cardinality(TestsSince(home, q.now))
          /\ Cardinality(TestsSince(home, q.now)) \in Nat
      BY <2>2, <3>1, WindowCounts DEF ChannelsInv
    <3>3. Cardinality(TestsSince(home, q.now)) < MaxTests
      BY <2>4
    <3>4. QED
      BY <2>1, <2>2, <2>3, <3>2, <3>3, ChannelsAssumption
  <2>5. CASE ~(q.pc = "record" /\ q.row.home = home)
    <3>1. Recording(home)' \subseteq Recording(home)
      BY <1>1, <2>5 DEF Recording, TestAt
    <3>2. Cardinality(Recording(home)') <= Cardinality(Recording(home))
      BY <2>3, <3>1, FS_Subset
    <3>3. Cardinality(TestsSince(home, instant)) + Cardinality(Recording(home)) <= MaxTests - 1 + Cardinality(TestProcs)
      BY DEF ChannelsInv, TestsCounted
    <3>4. QED
      BY <2>1, <2>2, <2>3, <3>2, <3>3, ChannelsAssumption
  <2>6. QED
    BY <2>4, <2>5
<1>7. QED
  BY <1>2, <1>3, <1>4, <1>5, <1>6 DEF ChannelsInv

\* The reads of a test keep the invariant.
LEMMA TestRead ==
  ASSUME ChannelsInv, NEW p \in TestProcs,
         (\E home \in Homes, c \in ChannelIds : GetChannel(p, home, c)) \/ OwnerContact(p) \/ CountTests(p) \/ Abort(p)
  PROVE  ChannelsInv'
<1>1. test \in [TestProcs -> TestRecord] /\ test[p] \in TestRecord /\ TestPlaced(test[p])
  BY DEF ChannelsInv, ChannelsTyped, TestsPlaced
<1>2. ASSUME NEW home \in Homes, NEW c \in ChannelIds, GetChannel(p, home, c) PROVE ChannelsInv'
  <2> DEFINE q == [NoTest EXCEPT !.pc = "contact", !.home = home, !.row = channels[c]]
  <2>1. channels[c] \in ChannelRows /\ channels[c].home = home
    BY <1>2 DEF GetChannel, InHome, ChannelsInv, ChannelsTyped
  <2>2. q \in TestRecord /\ q.pc = "contact" /\ q.row = channels[c] /\ q.home = home
    BY <2>1, IdleTest DEF NoTest, TestRecord, TestPlaces
  <2>3. test' = [test EXCEPT ![p] = q] /\ UNCHANGED <<channels, cipher, tested, instant, sent>>
    BY <1>2 DEF GetChannel
  <2> HIDE DEF q
  <2>4. TestPlaced(q)
    BY <2>1, <2>2 DEF TestPlaced
  <2>5. QED
    BY <2>2, <2>3, <2>4, TestMoves
<1>3. CASE OwnerContact(p)
  <2> DEFINE contact == OwnerLanguage[test[p].row.home]
             q == IF ChannelFromRow(test[p].row, contact, cipher)
                  THEN [test[p] EXCEPT !.pc = "count", !.contact = contact, !.now = instant]
                  ELSE NoTest
  <2>1. test' = [test EXCEPT ![p] = q] /\ UNCHANGED <<channels, cipher, tested, instant, sent>>
    BY <1>1, <1>3 DEF OwnerContact
  <2>2. test[p].row \in ChannelRows /\ test[p].row.home = test[p].home
    BY <1>1, <1>3 DEF OwnerContact, TestAt, TestPlaced
  <2>3. contact \in Contacts
    BY <2>2, RowKept DEF Contacts
  <2>4. instant \in Nat
    BY ChannelsAssumption DEF ChannelsInv, ChannelsTyped
  <2>5. q \in TestRecord /\ TestPlaced(q) /\ q.pc \in {"idle", "count"}
    <3>1. CASE ~ChannelFromRow(test[p].row, contact, cipher)
      BY <3>1, IdleTest
    <3>2. CASE ChannelFromRow(test[p].row, contact, cipher)
      <4>1. q = [test[p] EXCEPT !.pc = "count", !.contact = contact, !.now = instant]
        BY <3>2
      <4> HIDE DEF contact
      <4>2. /\ q \in TestRecord /\ q.pc = "count" /\ q.row = test[p].row /\ q.home = test[p].home
            /\ q.contact = contact /\ q.now = instant
        BY <1>1, <2>3, <2>4, <4>1 DEF TestRecord, TestPlaces
      <4> HIDE DEF q
      <4>3. TestPlaced(q)
        BY <2>2, <2>4, <3>2, <4>2 DEF TestPlaced
      <4>4. QED
        BY <4>2, <4>3
    <3>3. QED
      BY <3>1, <3>2
  <2> HIDE DEF q
  <2>6. QED
    BY <2>1, <2>5, TestMoves
<1>4. CASE CountTests(p)
  <2> DEFINE q == [test[p] EXCEPT !.pc = "record"]
             full == Cardinality(TestsSince(test[p].row.home, test[p].now)) >= MaxTests
  <2>1. test' = [test EXCEPT ![p] = IF full THEN NoTest ELSE q] /\ UNCHANGED <<channels, cipher, tested, instant, sent>>
    BY <1>1, <1>4 DEF CountTests
  <2>2. /\ q \in TestRecord /\ q.pc = "record" /\ q.row = test[p].row /\ q.home = test[p].home
        /\ q.contact = test[p].contact /\ q.now = test[p].now
    BY <1>1 DEF TestRecord, TestPlaces
  <2>3. test[p].pc = "count" /\ test[p].now \in Nat
    BY <1>1, <1>4 DEF CountTests, TestAt, TestRecord
  <2>4. ~full => Cardinality(TestsSince(q.row.home, q.now)) < MaxTests
    <3>1. Cardinality(TestsSince(test[p].row.home, test[p].now)) \in Nat
      BY <2>3, WindowCounts DEF ChannelsInv
    <3>2. QED
      BY <2>2, <3>1, ChannelsAssumption
  <2> HIDE DEF q, full
  <2>5. TestPlaced(q)
    BY <1>1, <2>2, <2>3 DEF TestPlaced
  <2>6. CASE full
    BY <2>1, <2>6, IdleTest, TestMoves
  <2>7. CASE ~full
    BY <2>1, <2>2, <2>4, <2>5, <2>7, TestMoves
  <2>8. QED
    BY <2>6, <2>7
<1>5. CASE Abort(p)
  BY <1>5, IdleTest, TestMoves DEF Abort
<1>6. QED
  BY <1>2, <1>3, <1>4, <1>5

\* The attempt is stored under the next number.
LEMMA TestRecorded ==
  ASSUME ChannelsInv, NEW p \in TestProcs, RecordTest(p) PROVE ChannelsInv'
<1> DEFINE n == 1 + Cardinality(tested)
           home == test[p].row.home
           a == [id |-> n, home |-> home, at |-> instant]
           q == [test[p] EXCEPT !.pc = "send", !.attempt = n]
<1>1. /\ test \in [TestProcs -> TestRecord] /\ test[p] \in TestRecord /\ TestPlaced(test[p]) /\ test[p].pc = "record"
      /\ IsFiniteSet(tested) /\ Cardinality(tested) \in Nat /\ instant \in 0..MaxInstant
      /\ tested \subseteq [id : Nat, home : Homes, at : 0..MaxInstant]
  BY FS_CardinalityType DEF ChannelsInv, ChannelsTyped, TestsPlaced, RecordTest, TestAt
<1>2. test[p].row \in ChannelRows /\ home \in Homes /\ home = test[p].home
  BY <1>1, RowKept DEF TestPlaced
<1>3. tested' = tested \cup {a} /\ test' = [test EXCEPT ![p] = q] /\ UNCHANGED <<channels, cipher, instant, sent>>
  BY <1>1 DEF RecordTest
<1>4. /\ q \in TestRecord /\ q.pc = "send" /\ q.attempt = n /\ q.row = test[p].row /\ q.home = test[p].home
      /\ q.contact = test[p].contact /\ q.now = test[p].now
  <2>1. n \in Nat
    BY <1>1
  <2> HIDE DEF n
  <2>2. QED
    BY <1>1, <2>1 DEF TestRecord, TestPlaces
<1>5. a \in [id : Nat, home : Homes, at : 0..MaxInstant] /\ a.id = n /\ a.home = home /\ a.at = instant /\ n = Cardinality(tested) + 1
  BY <1>1, <1>2
<1> HIDE DEF q, a, n
<1>6. a \notin tested
  <2>1. \A b \in tested : b.id <= Cardinality(tested) /\ b.id \in Nat
    BY <1>1 DEF ChannelsInv, AttemptsApart
  <2>2. QED
    BY <1>1, <1>5, <2>1
<1>7. IsFiniteSet(tested') /\ Cardinality(tested') = n
  <2>1. IsFiniteSet(tested \cup {a}) /\ Cardinality(tested \cup {a}) = Cardinality(tested) + 1
    BY <1>1, <1>6, FS_AddElement
  <2>2. QED
    BY <1>3, <1>5, <2>1
<1>8. \A r \in TestProcs : test'[r] = IF r = p THEN q ELSE test[r]
  BY <1>1, <1>3
<1>9. ChannelsTyped'
  <2>1. test' \in [TestProcs -> TestRecord]
    BY <1>1, <1>3, <1>4
  <2>2. QED
    BY <1>1, <1>3, <1>5, <1>7, <2>1 DEF ChannelsInv, ChannelsTyped
<1>10. \A i, h : CountedAs(i, h) => \E b \in tested' : b.id = i /\ b.home = h
  BY <1>3 DEF CountedAs
<1>11. TestsPlaced'
  <2>1. ASSUME NEW r \in TestProcs PROVE TestPlaced(test[r])'
    <3>1. CASE r = p
      <4>1. \E b \in tested' : b.id = q.attempt /\ b.home = q.row.home
        BY <1>3, <1>4, <1>5
      <4>2. QED
        BY <1>1, <1>2, <1>3, <1>4, <1>8, <3>1, <4>1 DEF TestPlaced, CountedAs
    <3>2. CASE r # p
      <4>1. TestPlaced(test[r]) /\ test'[r] = test[r]
        BY <1>8, <3>2 DEF ChannelsInv, TestsPlaced
      <4>2. QED
        BY <1>3, <1>10, <4>1 DEF TestPlaced, CountedAs
    <3>3. QED
      BY <3>1, <3>2
  <2>2. QED
    BY <2>1 DEF TestsPlaced
<1>12. \A i, h : CountedAs(i, h) => i # n
  <2>1. \A b \in tested : b.id \in Nat /\ b.id <= Cardinality(tested)
    BY <1>1 DEF ChannelsInv, AttemptsApart
  <2>2. QED
    BY <1>1, <1>5, <2>1 DEF CountedAs
<1>13. AttemptsApart'
  <2>1. \A b \in tested' : b.id <= Cardinality(tested')
    <3>1. \A b \in tested : b.id \in Nat /\ b.id <= Cardinality(tested)
      BY <1>1 DEF ChannelsInv, AttemptsApart
    <3>2. QED
      BY <1>1, <1>3, <1>5, <1>7, <3>1
  <2>2. \A r \in TestProcs : TestAt(r, "send")' =>
          \/ r = p /\ test'[r].attempt = n
          \/ r # p /\ TestAt(r, "send") /\ test'[r].attempt = test[r].attempt /\ test[r].attempt # n
    BY <1>4, <1>8, <1>12 DEF TestAt, ChannelsInv, TestsPlaced, TestPlaced
  <2>3. \A s \in sent : s.attempt # n
    BY <1>12 DEF ChannelsInv, SentKept
  <2>4. \A r, w \in TestProcs : r # w /\ TestAt(r, "send")' /\ TestAt(w, "send")' => test'[r].attempt # test'[w].attempt
    BY <2>2 DEF ChannelsInv, AttemptsApart
  <2>5. \A s \in sent', r \in TestProcs : TestAt(r, "send")' => s.attempt # test'[r].attempt
    BY <1>3, <2>2, <2>3 DEF ChannelsInv, AttemptsApart
  <2>6. \A s, u \in sent' : s.attempt = u.attempt => s = u
    BY <1>3 DEF ChannelsInv, AttemptsApart
  <2>7. QED
    BY <2>1, <2>4, <2>5, <2>6 DEF AttemptsApart
<1>14. (\A s \in sent : SentKept(s))'
  BY <1>3, <1>10 DEF ChannelsInv, SentKept, CountedAs
<1>15. TestsCounted'
  <2> SUFFICES ASSUME NEW h \in Homes
               PROVE  Cardinality(TestsSince(h, instant)') + Cardinality(Recording(h)') <= MaxTests - 1 + Cardinality(TestProcs)
    BY DEF TestsCounted
  <2>1. instant \in Nat
    BY <1>1, ChannelsAssumption
  <2>2. IsFiniteSet(TestsSince(h, instant)) /\ Cardinality(TestsSince(h, instant)) \in Nat
    BY <2>1, WindowCounts DEF ChannelsInv
  <2>3. IsFiniteSet(Recording(h)) /\ Cardinality(Recording(h)) \in Nat /\ Cardinality(TestProcs) \in Nat /\ Cardinality(Recording(h)') \in Nat
    BY RecordingCounts
  <2>4. Cardinality(TestsSince(h, instant)) + Cardinality(Recording(h)) <= MaxTests - 1 + Cardinality(TestProcs)
    BY DEF ChannelsInv, TestsCounted
  <2>5. CASE h = home
    <3>1. p \in Recording(h) /\ Recording(h)' \subseteq Recording(h) \ {p}
      BY <1>1, <1>4, <1>8, <2>5 DEF Recording, TestAt
    <3>2. IsFiniteSet(Recording(h) \ {p}) /\ Cardinality(Recording(h) \ {p}) = Cardinality(Recording(h)) - 1
      BY <2>3, <3>1, FS_RemoveElement
    <3>3. Cardinality(Recording(h)') <= Cardinality(Recording(h)) - 1
      BY <3>1, <3>2, FS_Subset
    <3>4. TestsSince(h, instant)' \subseteq TestsSince(h, instant) \cup {a}
      BY <1>3 DEF TestsSince
    <3>5. /\ IsFiniteSet(TestsSince(h, instant) \cup {a})
          /\ Cardinality(TestsSince(h, instant) \cup {a}) <= Cardinality(TestsSince(h, instant)) + 1
      <4>1. a \notin TestsSince(h, instant)
        BY <1>6 DEF TestsSince
      <4>2. /\ IsFiniteSet(TestsSince(h, instant) \cup {a})
            /\ Cardinality(TestsSince(h, instant) \cup {a}) = Cardinality(TestsSince(h, instant)) + 1
        BY <2>2, <4>1, FS_AddElement
      <4>3. QED
        BY <2>2, <4>2
    <3>6. /\ Cardinality(TestsSince(h, instant)') <= Cardinality(TestsSince(h, instant) \cup {a})
          /\ Cardinality(TestsSince(h, instant)') \in Nat /\ Cardinality(TestsSince(h, instant) \cup {a}) \in Nat
      BY <3>4, <3>5, FS_Subset, FS_CardinalityType
    <3>7. QED
      BY <2>2, <2>3, <2>4, <3>3, <3>5, <3>6, ChannelsAssumption
  <2>6. CASE h # home
    <3>1. TestsSince(h, instant)' = TestsSince(h, instant)
      BY <1>3, <1>5, <2>6 DEF TestsSince
    <3>2. Recording(h)' \subseteq Recording(h)
      BY <1>4, <1>8 DEF Recording, TestAt
    <3>3. Cardinality(Recording(h)') <= Cardinality(Recording(h))
      BY <2>3, <3>2, FS_Subset
    <3>4. QED
      BY <2>2, <2>3, <2>4, <3>1, <3>3, ChannelsAssumption
  <2>7. QED
    BY <2>5, <2>6
<1>16. QED
  BY <1>9, <1>11, <1>13, <1>14, <1>15 DEF ChannelsInv

\* One exchange at most, under the attempt that was stored.
LEMMA TestSent ==
  ASSUME ChannelsInv, NEW p \in TestProcs, SendTest(p) PROVE ChannelsInv'
<1> DEFINE q == test[p]
           o == Opened(q.row, cipher)
<1>1. test \in [TestProcs -> TestRecord] /\ TestPlaced(q) /\ q.pc = "send"
  BY DEF ChannelsInv, ChannelsTyped, TestsPlaced, SendTest, TestAt
<1>2. test' = [test EXCEPT ![p] = NoTest] /\ UNCHANGED <<channels, cipher, tested, instant>>
  BY DEF SendTest
<1>3. \A r \in TestProcs : test'[r] = IF r = p THEN NoTest ELSE test[r]
  BY <1>1, <1>2
<1>4. \A r \in TestProcs : TestAt(r, "send")' => r # p /\ TestAt(r, "send") /\ test'[r] = test[r]
  BY <1>3, IdleTest DEF TestAt
<1>5. ChannelsTyped'
  BY <1>1, <1>2, IdleTest DEF ChannelsInv, ChannelsTyped
<1>6. TestsPlaced'
  <2>1. \A r \in TestProcs : TestPlaced(test'[r])
    BY <1>3, IdleTest DEF ChannelsInv, TestsPlaced
  <2>2. QED
    BY <1>2, <2>1 DEF TestsPlaced, TestPlaced, CountedAs
<1>7. TestsCounted'
  <2> SUFFICES ASSUME NEW home \in Homes
               PROVE  Cardinality(TestsSince(home, instant)') + Cardinality(Recording(home)') <= MaxTests - 1 + Cardinality(TestProcs)
    BY DEF TestsCounted
  <2>1. TestsSince(home, instant)' = TestsSince(home, instant) /\ Recording(home)' \subseteq Recording(home)
    BY <1>2, <1>3, IdleTest DEF TestsSince, Recording, TestAt
  <2>2. /\ Cardinality(Recording(home)') <= Cardinality(Recording(home)) /\ Cardinality(TestProcs) \in Nat
        /\ Cardinality(Recording(home)) \in Nat /\ Cardinality(Recording(home)') \in Nat
    BY <2>1, RecordingCounts, FS_Subset
  <2>3. Cardinality(TestsSince(home, instant)) \in Nat
    BY ChannelsAssumption, WindowCounts DEF ChannelsInv, ChannelsTyped
  <2>4. Cardinality(TestsSince(home, instant)) + Cardinality(Recording(home)) <= MaxTests - 1 + Cardinality(TestProcs)
    BY DEF ChannelsInv, TestsCounted
  <2>5. QED
    BY <2>1, <2>2, <2>3, <2>4, ChannelsAssumption
<1>8. ASSUME UNCHANGED sent PROVE AttemptsApart' /\ (\A s \in sent : SentKept(s))'
  <2>1. AttemptsApart'
    BY <1>2, <1>4, <1>8 DEF ChannelsInv, AttemptsApart
  <2>2. (\A s \in sent : SentKept(s))'
    BY <1>2, <1>8 DEF ChannelsInv, SentKept, CountedAs
  <2>3. QED
    BY <2>1, <2>2
<1>9. ASSUME NEW a \in Contacted(q.row),
             sent' = sent \cup {[row |-> q.row, home |-> q.home, address |-> a, attempt |-> q.attempt,
                                 message |-> Message(q.row.kind, o, q.contact)]}
      PROVE  AttemptsApart' /\ (\A s \in sent : SentKept(s))'
  <2> DEFINE x == [row |-> q.row, home |-> q.home, address |-> a, attempt |-> q.attempt,
                   message |-> Message(q.row.kind, o, q.contact)]
  <2>1. sent' = sent \cup {x} /\ x.attempt = q.attempt
    BY <1>9
  <2>2. SentKept(x)
    BY <1>1, RowSends, ContactedIsPublic DEF SentKept, TestPlaced
  <2> HIDE DEF x
  <2>3. AttemptsApart'
    <3>1. \A s \in sent : s.attempt # q.attempt
      BY <1>1 DEF ChannelsInv, AttemptsApart, TestAt
    <3>2. \A s \in sent' : \A r \in TestProcs : TestAt(r, "send")' => s.attempt # test'[r].attempt
      BY <1>1, <1>4, <2>1 DEF ChannelsInv, AttemptsApart, TestAt
    <3>3. \A s, u \in sent' : s.attempt = u.attempt => s = u
      BY <2>1, <3>1 DEF ChannelsInv, AttemptsApart
    <3>4. QED
      BY <1>2, <1>4, <3>2, <3>3 DEF ChannelsInv, AttemptsApart
  <2>4. (\A s \in sent : SentKept(s))'
    BY <1>2, <2>1, <2>2 DEF ChannelsInv, SentKept, CountedAs
  <2>5. QED
    BY <2>3, <2>4
<1>10. AttemptsApart' /\ (\A s \in sent : SentKept(s))'
  BY <1>8, <1>9 DEF SendTest
<1>11. QED
  BY <1>5, <1>6, <1>7, <1>10 DEF ChannelsInv

\* A row is registered, or removed: the tests at work keep the one they read.
LEMMA ChannelsMove ==
  ASSUME ChannelsInv,
         \/ \E home \in Homes, want \in Wanted : CreateChannel(home, want)
         \/ \E home \in Homes, c \in ChannelIds : DeleteChannel(home, c)
  PROVE  ChannelsInv'
<1>1. UNCHANGED <<cipher, tested, test, instant, sent>>
  BY DEF CreateChannel, DeleteChannel
<1>2. channels \in [ChannelIds -> ChannelRows \cup {NoChannel}] /\ cipher \in CipherKeys \cup {NoKey}
  BY DEF ChannelsInv, ChannelsTyped
<1>3. channels' \in [ChannelIds -> ChannelRows \cup {NoChannel}]
  <2>1. ASSUME NEW home \in Homes, NEW want \in Wanted, CreateChannel(home, want)
        PROVE  channels' \in [ChannelIds -> ChannelRows \cup {NoChannel}]
    <3>1. Accepted(want.kind, want.config, cipher)
      BY <2>1 DEF CreateChannel
    <3>2. ChannelRow(home, want, cipher) \in ChannelRows
      BY <1>2, <3>1, RowAccepted
    <3>3. \E c : channels' = [channels EXCEPT ![c] = ChannelRow(home, want, cipher)]
      BY <2>1 DEF CreateChannel, ChannelRow
    <3>4. QED
      BY <1>2, <3>2, <3>3
  <2>2. ASSUME NEW home \in Homes, NEW c \in ChannelIds, DeleteChannel(home, c)
        PROVE  channels' \in [ChannelIds -> ChannelRows \cup {NoChannel}]
    BY <1>2, <2>2 DEF DeleteChannel
  <2>3. QED
    BY <2>1, <2>2
<1>4. QED
  BY <1>1, <1>3 DEF ChannelsInv, ChannelsTyped, TestsPlaced, TestPlaced, AttemptsApart, SentKept, CountedAs, TestsCounted,
     TestsSince, Recording, TestAt

\* A restart ends the tests: none goes on with a row that another key opened.
LEMMA RestartKeeps ==
  ASSUME ChannelsInv, NEW key \in CipherKeys \cup {NoKey}, RestartWith(key) PROVE ChannelsInv'
<1>1. cipher' = key /\ test' = [p \in TestProcs |-> NoTest] /\ UNCHANGED <<channels, tested, instant, sent>>
  BY DEF RestartWith
<1>2. \A p \in TestProcs : test'[p] = NoTest /\ ~TestAt(p, "send")' /\ ~TestAt(p, "record")'
  BY <1>1, IdleTest DEF TestAt
<1>3. ChannelsTyped'
  BY <1>1, IdleTest DEF ChannelsInv, ChannelsTyped
<1>4. TestsPlaced'
  BY <1>2, IdleTest DEF TestsPlaced, TestPlaced
<1>5. AttemptsApart'
  BY <1>1, <1>2 DEF ChannelsInv, AttemptsApart
<1>6. (\A s \in sent : SentKept(s))'
  BY <1>1 DEF ChannelsInv, SentKept, CountedAs
<1>7. TestsCounted'
  <2> SUFFICES ASSUME NEW home \in Homes
               PROVE  Cardinality(TestsSince(home, instant)') + Cardinality(Recording(home)') <= MaxTests - 1 + Cardinality(TestProcs)
    BY DEF TestsCounted
  <2>1. TestsSince(home, instant)' = TestsSince(home, instant) /\ Recording(home)' \subseteq Recording(home)
    BY <1>1, <1>2 DEF TestsSince, Recording
  <2>2. /\ Cardinality(Recording(home)') <= Cardinality(Recording(home)) /\ Cardinality(TestProcs) \in Nat
        /\ Cardinality(Recording(home)) \in Nat /\ Cardinality(Recording(home)') \in Nat
    BY <2>1, RecordingCounts, FS_Subset
  <2>3. Cardinality(TestsSince(home, instant)) \in Nat
    BY ChannelsAssumption, WindowCounts DEF ChannelsInv, ChannelsTyped
  <2>4. Cardinality(TestsSince(home, instant)) + Cardinality(Recording(home)) <= MaxTests - 1 + Cardinality(TestProcs)
    BY DEF ChannelsInv, TestsCounted
  <2>5. QED
    BY <2>1, <2>2, <2>3, <2>4, ChannelsAssumption
<1>8. QED
  BY <1>3, <1>4, <1>5, <1>6, <1>7 DEF ChannelsInv

\* Time that passes keeps the invariant.
LEMMA InstantPasses ==
  ASSUME ChannelsInv, PassInstant PROVE ChannelsInv'
<1>1. instant' = instant + 1 /\ instant < MaxInstant /\ UNCHANGED <<channels, cipher, tested, test, sent>>
  BY DEF PassInstant
<1>2. instant \in Nat /\ instant' \in Nat /\ instant' \in 0..MaxInstant /\ instant <= instant'
  BY <1>1, ChannelsAssumption DEF ChannelsInv, ChannelsTyped
<1>3. ChannelsTyped'
  BY <1>1, <1>2 DEF ChannelsInv, ChannelsTyped
<1>4. TestsPlaced'
  <2>1. ASSUME NEW p \in TestProcs PROVE TestPlaced(test[p])'
    <3>1. TestPlaced(test[p]) /\ test[p].now \in Nat
      BY DEF ChannelsInv, ChannelsTyped, TestsPlaced, TestRecord
    <3>2. test[p].now <= instant => test[p].now <= instant'
      BY <1>2, <3>1
    <3>3. QED
      BY <1>1, <3>1, <3>2 DEF TestPlaced, CountedAs
  <2>2. QED
    BY <2>1 DEF TestsPlaced
<1>5. AttemptsApart' /\ (\A s \in sent : SentKept(s))'
  BY <1>1 DEF ChannelsInv, AttemptsApart, SentKept, CountedAs, TestAt
<1>6. TestsCounted'
  <2> SUFFICES ASSUME NEW home \in Homes
               PROVE  Cardinality(TestsSince(home, instant)') + Cardinality(Recording(home)') <= MaxTests - 1 + Cardinality(TestProcs)
    BY DEF TestsCounted
  <2>1. TestsSince(home, instant)' = TestsSince(home, instant') /\ Recording(home)' = Recording(home)
    BY <1>1 DEF TestsSince, Recording, TestAt
  <2>2. /\ Cardinality(TestsSince(home, instant')) <= Cardinality(TestsSince(home, instant))
        /\ Cardinality(TestsSince(home, instant')) \in Nat /\ Cardinality(TestsSince(home, instant)) \in Nat
    BY <1>2, WindowCounts DEF ChannelsInv
  <2>3. Cardinality(Recording(home)) \in Nat /\ Cardinality(TestProcs) \in Nat
    BY RecordingCounts
  <2>4. Cardinality(TestsSince(home, instant)) + Cardinality(Recording(home)) <= MaxTests - 1 + Cardinality(TestProcs)
    BY DEF ChannelsInv, TestsCounted
  <2>5. QED
    BY <2>1, <2>2, <2>3, <2>4, ChannelsAssumption
<1>7. QED
  BY <1>3, <1>4, <1>5, <1>6 DEF ChannelsInv

\* Every step keeps the invariant.
LEMMA ChannelsStepInv == ChannelsInv /\ [ChannelsNext]_channelVars => ChannelsInv'
<1> SUFFICES ASSUME ChannelsInv, [ChannelsNext]_channelVars PROVE ChannelsInv'
  OBVIOUS
<1>1. ASSUME NEW p \in TestProcs, TestStep(p) PROVE ChannelsInv'
  BY <1>1, TestRead, TestRecorded, TestSent DEF TestStep
<1>2. CASE UNCHANGED channelVars
  BY <1>2 DEF channelVars, ChannelsInv, ChannelsTyped, TestsPlaced, TestPlaced, AttemptsApart, SentKept, CountedAs,
     TestsCounted, TestsSince, Recording, TestAt
<1>3. QED
  BY <1>1, <1>2, ChannelsMove, RestartKeeps, InstantPasses DEF ChannelsNext

\* The invariant always holds.
LEMMA ChannelsAlways == ChannelsSpec => []ChannelsInv
  BY ChannelsInitInv, ChannelsStepInv, PTL DEF ChannelsSpec

-----------------------------------------------------------------------------
(* The theorems. *)

\* The values of the variables; no stored field is one that was refused.
THEOREM ChannelsTyping == ChannelsSpec => []ChannelsTypeOK
<1>1. ChannelsInv => ChannelsTypeOK
  <2> SUFFICES ASSUME ChannelsInv PROVE ChannelsTypeOK
    OBVIOUS
  <2>1. \A c \in ChannelIds : channels[c] # NoChannel => channels[c] \in ChannelRows
    BY DEF ChannelsInv, ChannelsTyped
  <2>2. \A p \in TestProcs : test[p].pc \in TestPlaces
    BY DEF ChannelsInv, ChannelsTyped, TestRecord
  <2>3. QED
    BY <2>1, <2>2, RowKept DEF ChannelsInv, ChannelsTyped, ChannelsTypeOK, TestPlaces
<1>2. QED
  BY ChannelsAlways, <1>1, PTL

\* What is not a channel has no secret.
LEMMA NoSecretInNoChannel == SecretsOf(NoChannel.config) = {}
  BY DEF NoChannel, SecretsOf, SecretKeys

\* The invariant says that secrets are kept.
LEMMA SecretsAreKept == ChannelsInv => SecretsKept
<1> SUFFICES ASSUME ChannelsInv PROVE SecretsKept
  OBVIOUS
<1>1. ASSUME NEW c \in ChannelIds, NEW f \in SecretsOf(channels[c].config)
      PROVE  /\ channels[c].config[f].key \in CipherKeys
             /\ channels[c].config[f].aad = <<channels[c].home, channels[c].kind, f>>
  <2>1. channels[c] \in ChannelRows
    BY <1>1, NoSecretInNoChannel DEF ChannelsInv, ChannelsTyped
  <2>2. QED
    BY <1>1, <2>1, RowKept
<1>2. ASSUME NEW home \in Homes, NEW shown \in Listed(home), NEW f \in SecretsOf(shown.config)
      PROVE  shown.config[f] = Redacted
  BY <1>2 DEF Listed, RowToDto, SecretsOf
<1>3. QED
  BY <1>1, <1>2 DEF SecretsKept

\* What the owner entered is sealed in its place, shown to nobody, and sent as it
\* is to the owner's target only, whatever key the process is restarted with.
THEOREM ConfigurationIsKept == ChannelsSpec => []ConfigurationKept
<1>1. ChannelsInv => SentAsEntered /\ SentToOwnTarget
  BY DEF ChannelsInv, SentKept, Entered, SentAsEntered, SentToOwnTarget
<1>2. QED
  BY ChannelsAlways, <1>1, SecretsAreKept, PTL DEF ConfigurationKept

\* No send escapes the count, and the tests of a window stay within the limit and
\* the tests at work, however they interleave.
THEOREM TestsAreLimited == ChannelsSpec => []TestsLimited
<1>1. ChannelsInv => TestSendsBounded
  <2> SUFFICES ASSUME ChannelsInv, NEW home \in Homes
               PROVE  Cardinality({a \in tested : a.home = home /\ a.at >= instant - TestWindow}) <= MaxTests - 1 + Cardinality(TestProcs)
    BY DEF TestSendsBounded
  <2>1. {a \in tested : a.home = home /\ a.at >= instant - TestWindow} = TestsSince(home, instant)
    BY DEF TestsSince, InTestWindow
  <2>2. Cardinality(TestsSince(home, instant)) + Cardinality(Recording(home)) <= MaxTests - 1 + Cardinality(TestProcs)
    BY DEF ChannelsInv, TestsCounted
  <2>3. Cardinality(TestsSince(home, instant)) \in Nat
    BY ChannelsAssumption, WindowCounts DEF ChannelsInv, ChannelsTyped
  <2>4. Cardinality(Recording(home)) \in Nat /\ Cardinality(TestProcs) \in Nat
    BY RecordingCounts
  <2>5. Cardinality(TestsSince(home, instant)) <= MaxTests - 1 + Cardinality(TestProcs)
    BY <2>2, <2>3, <2>4, ChannelsAssumption
  <2>6. QED
    BY <2>1, <2>5
<1>2. ChannelsInv => SentWasRecorded
  BY DEF ChannelsInv, SentKept, CountedAs, AttemptsApart, SentWasRecorded
<1>3. QED
  BY ChannelsAlways, <1>1, <1>2, PTL DEF TestsLimited

-----------------------------------------------------------------------------
(* Together: no part moves another, whichever has the focus. *)

householdVars == <<focus, accountVars, channelVars, form, catalogueVars>>

\* No part moves another: the household implements each of its parts.
THEOREM PartsKept == Spec => AccountsSpec /\ ChannelsSpec /\ FormsSpec /\ CatalogueSpec
<1>1. Init => AccountsInit /\ ChannelsInit /\ FormsInit /\ CatalogueInit
  BY DEF Init
<1>2. [Next]_householdVars => [AccountsNext]_accountVars
  BY DEF Next, householdVars
<1>3. [Next]_householdVars => [ChannelsNext]_channelVars
  BY DEF Next, householdVars
<1>4. [Next]_householdVars => [PostForm]_form
  BY DEF Next, householdVars
<1>5. [Next]_householdVars => [CatalogueNext]_catalogueVars
  BY DEF Next, householdVars
<1>6. QED
  BY <1>1, <1>2, <1>3, <1>4, <1>5, PTL DEF Spec, AccountsSpec, ChannelsSpec, FormsSpec, CatalogueSpec, householdVars

\* The values of every variable of a household; its names stay unique.
THEOREM HouseholdTyping == Spec => []HouseholdTypeOK
  BY PartsKept, AccountsTyping, ChannelsTyping, CatalogueTyping, PTL DEF HouseholdTypeOK

\* What the parts promise one by one, a household promises together.
THEOREM HouseholdSafe ==
  Spec => [](AccessEnds /\ FailuresBounded /\ ConfigurationKept /\ TestsLimited /\ AcceptedFormsWork /\ HeldReferencesStay)
  BY PartsKept, EndedAccess, BoundedFailures, ConfigurationIsKept, TestsAreLimited, FormsWork, HeldStay, PTL

\* Whatever part moves, a session, a device or a row ends by the one it belongs to.
THEOREM OnlyOwnersEnd == Spec => OnlyByItsOwner
<1>1. UNCHANGED accountVars => EndsOnlyByItsOwner
  BY DEF accountVars, EndsOnlyByItsOwner
<1>2. UNCHANGED catalogueVars => DeletedByItsOwner
  BY DEF catalogueVars, DeletedByItsOwner
<1>3. [EndsOnlyByItsOwner]_accountVars /\ [DeletedByItsOwner]_catalogueVars
        => [EndsOnlyByItsOwner /\ DeletedByItsOwner]_<<accountVars, catalogueVars>>
  BY <1>1, <1>2
<1>4. QED
  BY PartsKept, OwnersEnd, OwnersDelete, <1>3, PTL DEF OnlyByItsOwner
=============================================================================
