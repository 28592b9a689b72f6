--------------------------- MODULE ChannelConfig ---------------------------
(* The configuration of a notification channel: what the creation accepts    *)
(* and stores (server/notifications.rs), how its secrets are sealed          *)
(* (core/secrets.rs), how a row becomes a channel again                      *)
(* (server/reminders.rs) and what the channel then sends (notifier).         *)
(*                                                                           *)
(* A field holds a class of values: "absent", "number" (no string), "empty", *)
(* "blank", "text", "marked" (it begins like a sealed value), "spaced text"  *)
(* and "spaced mark" (the same after a space), "mailbox", "bot token",       *)
(* "port", "port 0", "port 65536", and URLs: "name", "public", "internal",   *)
(* "localhost", "ftp".  A stored value is a class and the seal on it.        *)
EXTENDS Naturals, FiniteSets

NoKey == "no key"
Unsealed == <<>>
Refused == "refused"
Unreadable == "unreadable"

Numbers == {"number", "port", "port 0", "port 65536"}
IsString(v) == v # "absent" /\ v \notin Numbers
Trimmed(v) ==
  CASE v = "blank" -> "empty"
    [] v = "spaced mark" -> "marked"
    [] v = "spaced text" -> "text"
    [] OTHER -> v

Require(v, accepted) == IF accepted THEN v ELSE Refused

\* None for a missing or blank value; a value is trimmed before it is stored.
NonEmptyString(v) == IF IsString(v) /\ Trimmed(v) # "empty" THEN Trimmed(v) ELSE "absent"
Needed(v) == Require(NonEmptyString(v), NonEmptyString(v) # "absent")

-----------------------------------------------------------------------------
(* The guard on URLs: at the registration for what is typed, at each send    *)
(* for what a name resolves to.                                              *)

IsHttpUrl(v) == v \in {"name", "public", "internal", "localhost"}

\* The classes of addresses, IPv4 and IPv6; an IPv4 written as an IPv6 is judged as IPv4.
InternalAddresses == {"loopback", "private", "link-local", "unspecified", "broadcast", "documentation",
                      "cgnat", "this network", "unique-local", "multicast v6"}
IpIsPublic(address) == address \notin InternalAddresses

\* A literal address is judged here, a name when it is resolved.
WebhookUrlIsSafe(v) == IsHttpUrl(v) /\ v # "localhost" /\ v # "internal"

\* The addresses reqwest may connect to; none of them is an error of connection.
PublicOnly(resolved) == {a \in resolved : IpIsPublic(a)}

-----------------------------------------------------------------------------
(* The validators: what is stored for each field, or Refused.                *)

ValidateWebhook(c) == [url |-> Require(c.url, WebhookUrlIsSafe(c.url))]

ValidateEmailMutant(c) ==
  [host |-> Require(c.host, IsString(c.host) /\ c.host # "empty"),
   port |-> Require(c.port, c.port \in Numbers),
   username |-> Require(c.username, IsString(c.username)),
   password |-> Require(c.password, IsString(c.password)),
   from |-> Require(c.from, c.from = "mailbox")]
ValidateEmail(c) ==
  [host |-> Require(c.host, IsString(c.host) /\ c.host # "empty"),
   port |-> Require(c.port, c.port = "port"),
   username |-> Require(c.username, IsString(c.username)),
   password |-> Require(c.password, IsString(c.password)),
   from |-> Require(c.from, c.from = "mailbox")]

TelegramBotTokenIsValid(v) == v = "bot token"

ValidateTelegram(c) ==
  [bot_token |-> Require(NonEmptyString(c.bot_token), TelegramBotTokenIsValid(NonEmptyString(c.bot_token))),
   chat_id |-> Needed(c.chat_id)]

\* A blank name or avatar is dropped.
ValidateDiscord(c) ==
  LET avatar == NonEmptyString(c.avatar_url) IN
  [url |-> Require(c.url, WebhookUrlIsSafe(c.url)),
   username |-> NonEmptyString(c.username),
   avatar_url |-> Require(avatar, avatar = "absent" \/ IsHttpUrl(avatar))]

ValidateGotify(c) == [url |-> Require(c.url, WebhookUrlIsSafe(c.url)), token |-> Needed(c.token)]

ValidatePushover(c) == [user_key |-> Needed(c.user_key), token |-> Needed(c.token)]

Kinds == {"webhook", "email", "telegram", "discord", "gotify", "pushover"}

Validated(kind, c) ==
  CASE kind = "webhook" -> ValidateWebhook(c)
    [] kind = "email" -> ValidateEmail(c)
    [] kind = "telegram" -> ValidateTelegram(c)
    [] kind = "discord" -> ValidateDiscord(c)
    [] kind = "gotify" -> ValidateGotify(c)
    [] kind = "pushover" -> ValidatePushover(c)

-----------------------------------------------------------------------------
(* Secrets at rest.                                                          *)

SecretKeys == {"password", "bot_token", "token", "user_key"}
SecretsOf(c) == SecretKeys \cap DOMAIN c

\* The household, the kind and the field: what a sealed value is bound to.
ChannelSecretAad(home, kind, field) == <<home, kind, field>>
Encrypt(key, text, aad) == [text |-> text, key |-> key, aad |-> aad]
Plain(text) == [text |-> text, key |-> NoKey, aad |-> Unsealed]
IsEncrypted(value) == value.key # NoKey \/ value.text = "marked"
Decrypt(key, value, aad) == IF value.key = key /\ value.aad = aad THEN value.text ELSE Unreadable

\* The string that is stored.
Stored(value) == IF value.key = NoKey THEN value.text ELSE "sealed"

Sealed(kind, home, c, key) ==
  [f \in DOMAIN c |-> IF f \in SecretKeys THEN Encrypt(key, c[f], ChannelSecretAad(home, kind, f)) ELSE Plain(c[f])]


\* What POST /notifications/channels checks before it inserts Sealed(...).
Accepted(kind, c, key) ==
  LET v == Validated(kind, c) IN
  /\ \A f \in DOMAIN v : v[f] # Refused
  /\ SecretsOf(v) # {} => key # NoKey
  /\ \A f \in SecretsOf(v) : ~IsEncrypted(Plain(v[f]))

Redacted == Plain("<redacted>")
RowToDto(config) == [f \in DOMAIN config |-> IF f \in SecretKeys THEN Redacted ELSE config[f]]

-----------------------------------------------------------------------------
(* A row becomes a channel.                                                  *)

\* The values of a field of a row: read as they are, except the secrets.
SecretMutant(row, field, key) ==
  LET value == row.config[field] IN
  IF key = NoKey THEN Stored(value) ELSE Decrypt(key, value, ChannelSecretAad(row.home, row.kind, field))
Secret(row, field, key) ==
  LET value == row.config[field] IN
  IF ~IsEncrypted(value) THEN Stored(value)
  ELSE IF key = NoKey THEN Unreadable
  ELSE Decrypt(key, value, ChannelSecretAad(row.home, row.kind, field))

\* Without a port that fits 16 bits or with any field missing, no e-mail.
EmailConfigFrom(c) == \A f \in {"host", "port", "username", "password", "from"} :
                        c[f].text # "absent" /\ c[f].text \notin {"number", "port 65536"}

\* The channel a row and a key give: its fields in the clear, or Unreadable ones.
Opened(row, key) ==
  [f \in DOMAIN row.config |-> IF f \in SecretKeys THEN Secret(row, f, key) ELSE Stored(row.config[f])]

ChannelFromRow(row, contact, key) ==
  LET o == Opened(row, key) IN
  /\ row.kind \in Kinds
  /\ row.kind = "email" => contact # Unreadable /\ EmailConfigFrom(row.config)
  /\ \A f \in DOMAIN o : o[f] # Unreadable /\ (f \notin {"username", "avatar_url"} => o[f] # "absent")

-----------------------------------------------------------------------------
(* What an opened channel o sends: to whom, with which secrets, in which     *)
(* language ("json" when the payload itself is sent).                        *)

Webhook(o, language) == [to |-> o.url, bears |-> <<>>, in |-> "json"]
Email(o, language) == [to |-> o.host, bears |-> <<o.username, o.password>>, in |-> language]
Telegram(o, language) == [to |-> "api.telegram.org", bears |-> <<o.bot_token, o.chat_id>>, in |-> language]
Discord(o, language) == [to |-> o.url, bears |-> <<o.username, o.avatar_url>>, in |-> language]
Gotify(o, language) == [to |-> o.url, bears |-> <<o.token>>, in |-> language]
Pushover(o, language) == [to |-> "api.pushover.net", bears |-> <<o.token, o.user_key>>, in |-> language]

Message(kind, o, language) ==
  CASE kind = "webhook" -> Webhook(o, language)
    [] kind = "email" -> Email(o, language)
    [] kind = "telegram" -> Telegram(o, language)
    [] kind = "discord" -> Discord(o, language)
    [] kind = "gotify" -> Gotify(o, language)
    [] kind = "pushover" -> Pushover(o, language)
=============================================================================
