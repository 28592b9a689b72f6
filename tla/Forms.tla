------------------------------- MODULE Forms -------------------------------
(* A configuration that is posted, stored and opened again: the creation of a *)
(* channel judges it in one place (server/notifications.rs), the test and the *)
(* cron read it in another (server/reminders.rs).                             *)
EXTENDS ChannelConfig

CONSTANT AskedForms    \* [kind, config, key]: a body, and the key of the process

\* Every kind is known, and no value has the name of what cannot be read.
ASSUME FormsAssumption ==
  \A f \in AskedForms :
    f.kind \in Kinds /\ \A field \in DOMAIN Validated(f.kind, f.config) : f.config[field] # Unreadable

VARIABLE form          \* what was posted, and the row it became

NoForm == [kind |-> "none", config |-> <<>>, key |-> NoKey]

FormsInit == form = [asked |-> NoForm, row |-> NoForm]

PostForm ==
  /\ form.asked = NoForm
  /\ \E f \in AskedForms :
       form' = [asked |-> f,
                row |-> IF Accepted(f.kind, f.config, f.key)
                        THEN [kind |-> f.kind, home |-> "home",
                              config |-> Sealed(f.kind, "home", Validated(f.kind, f.config), f.key)]
                        ELSE NoForm]

FormsSpec == FormsInit /\ [][PostForm]_form

-----------------------------------------------------------------------------
(* A channel that was accepted can be sent to, with the values that were      *)
(* accepted and nowhere inside: no accepted form is refused by the reader or  *)
(* read as something else, as one whose secret looks sealed already would be  *)
(* (create_notification_channel against channel_from_row and the constructors *)
(* of the notifier).                                                          *)
AcceptedFormsWork ==
  form.row # NoForm =>
    LET opened == Opened(form.row, form.asked.key) IN
    /\ ChannelFromRow(form.row, "fr", form.asked.key)
    /\ opened = Validated(form.asked.kind, form.asked.config)
    /\ \A f \in {"url"} \cap DOMAIN opened : opened[f] \in {"name", "public"}
    /\ form.asked.kind = "email" => opened.port = "port" /\ opened.from = "mailbox"
=============================================================================
