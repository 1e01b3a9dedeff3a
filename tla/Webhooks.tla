------------------------------- MODULE Webhooks -------------------------------
(***************************************************************************)
(* The two stores of webhooks, Slack's (web/slack_integration.py) and the  *)
(* generic one (web/webhook_alerts.py): a JSON file each, a history file   *)
(* beside the generic one, and retried calls.                              *)
(*                                                                         *)
(* All of it runs on the event loop, a send with its calls, retries and    *)
(* pauses included, so operations follow one another; a save may fail and  *)
(* the process may die at any step of a send.  A store that cannot be read *)
(* is a shallow copy of the module's defaults: its list of webhooks is the *)
(* defaults' own, so what is added to it is in the defaults of this        *)
(* process from then on.                                                   *)
(***************************************************************************)
EXTENDS Integers, FiniteSetsExt, SequencesExt, Lists

CONSTANTS
    Slack, Generic,    \* the two stores
    HookNames,
    MaxTime,           \* the clock of the ids, in seconds, counts to this
    MaxHookSteps, MaxHookFaults,
    KeepSends,         \* entries kept of the history, 1000 in the code
    Retries            \* max_retries

Stores == {Slack, Generic}
ASSUME WebhookAssumption ==
    /\ Slack # Generic
    /\ MaxTime \in Nat /\ MaxHookSteps \in Nat /\ MaxHookFaults \in Nat /\ KeepSends \in Nat \ {0} /\ Retries \in Nat \ {0}

VARIABLES
    wbText,      \* "none", "cut" or "whole", by store
    wbSaved,     \* what the file holds: [hooks, default, enabled]
    wbDefaults,  \* the list in the module's defaults
    wbLogText, wbLog,   \* the history of sends
    wbNow,
    wbNumber,    \* history: webhooks made so far, which tells two with one id apart
    wbMoved,     \* history: stores whose default_webhook the settings named, or that could not be read
    wbGone,      \* history: seconds in which a store's webhook was removed, or its list was another one
    wbReached,   \* history: calls answered with 2xx, by webhook
    wbUnsaved,   \* history: webhooks a count of which was not saved, or whose store could not be read since
    wbSend,      \* the send under way: the webhook's id, the next step, calls made, whether one got through
    wbSteps, wbFaults

webhookVars == <<wbText, wbSaved, wbDefaults, wbLogText, wbLog, wbNow, wbNumber, wbMoved, wbGone, wbReached, wbUnsaved, wbSend, wbSteps, wbFaults>>
sendLogVars == <<wbLogText, wbLog>>

NoDefault == <<>>
Empty     == [hooks |-> <<>>, default |-> NoDefault, enabled |-> FALSE]
HookNumbers   == 1 .. MaxHookSteps
NotSending  == [id |-> NoDefault, stage |-> "none", tries |-> 0, ok |-> FALSE]

WebhookInit ==
    /\ wbText = [s \in Stores |-> "none"] /\ wbSaved = [s \in Stores |-> Empty]
    /\ wbDefaults = [s \in Stores |-> <<>>]
    /\ wbLogText = "none" /\ wbLog = <<>> /\ wbNow = 0 /\ wbNumber = 0
    /\ wbMoved = {} /\ wbGone = {} /\ wbReached = [n \in HookNumbers |-> 0] /\ wbUnsaved = {}
    /\ wbSend = NotSending /\ wbSteps = 0 /\ wbFaults = 0

\* load_config
Readable(s) == wbText[s] = "whole"
Config(s) == IF Readable(s) THEN wbSaved[s] ELSE [Empty EXCEPT !.hooks = wbDefaults[s]]
Hooks(s)  == Config(s).hooks

\* The event loop begins nothing else while a send is under way.
OnLoop    == wbSend = NotSending /\ wbSteps < MaxHookSteps /\ wbSteps' = wbSteps + 1
Operation == OnLoop /\ UNCHANGED wbSend

\* save_config: open truncates the file; the error of a write is answered, a crash is not.
Save(s, config) ==
    \/ wbText' = [wbText EXCEPT ![s] = "whole"] /\ wbSaved' = [wbSaved EXCEPT ![s] = config] /\ UNCHANGED <<wbFaults, wbUnsaved>>
    \/ /\ wbFaults < MaxHookFaults /\ wbFaults' = wbFaults + 1
       /\ wbText' = [wbText EXCEPT ![s] = "cut"] /\ wbSaved' = [wbSaved EXCEPT ![s] = Empty]
       /\ wbUnsaved' = wbUnsaved \cup 1 .. wbNumber

\* The history of a save: what it leaves behind when it was cut off, or by what it does.
Cut(s)        == wbText'[s] = "cut"
Moved(s, how) == wbMoved' = IF how \/ Cut(s) THEN wbMoved \cup {s} ELSE wbMoved
Gone(s, how)  == wbGone' = IF how \/ Cut(s) THEN wbGone \cup {<<s, wbNow>>} ELSE wbGone

\* A list that is the defaults' own is changed in place.
InPlace(s, hooks) == wbDefaults' = IF Readable(s) THEN wbDefaults ELSE [wbDefaults EXCEPT ![s] = hooks]

(* ------------------------------- the webhooks ----------------------------- *)

\* The id is the number of webhooks and the second.
IdWithoutTime(hooks) == <<Len(hooks), 0>>                                  \* a mutant
NewId(hooks) == <<Len(hooks), wbNow>>

AddWebhook(s, name) ==
    /\ Operation
    /\ \A i \in DOMAIN Hooks(s) : Hooks(s)[i].name # name
    /\ wbNumber' = wbNumber + 1
    /\ LET h == [id |-> NewId(Hooks(s)), name |-> name, number |-> wbNumber + 1, sent |-> 0, enabled |-> TRUE]
           hooks == Append(Hooks(s), h)
           \* Slack's first webhook becomes the default.
           default == IF s = Slack /\ Config(s).default = NoDefault THEN h.id ELSE Config(s).default
       IN  InPlace(s, hooks) /\ Save(s, [Config(s) EXCEPT !.hooks = hooks, !.default = default])
    /\ Moved(s, FALSE) /\ Gone(s, FALSE)
    /\ UNCHANGED <<wbNow, wbReached>> /\ UNCHANGED sendLogVars

WithId(s, id) == {i \in DOMAIN Hooks(s) : Hooks(s)[i].id = id}

DefaultLeft(s, hooks, id) == Config(s).default                             \* a mutant
DefaultAfter(s, hooks, id) ==
    IF s = Slack /\ Config(s).default = id THEN IF hooks = <<>> THEN NoDefault ELSE hooks[1].id
    ELSE Config(s).default

\* remove_webhook makes a new list, without any webhook of the id.
RemoveWebhook(s, id) ==
    /\ Operation /\ WithId(s, id) # {}
    /\ LET hooks == Sublist(Hooks(s), DOMAIN Hooks(s) \ WithId(s, id))
       IN  Save(s, [Config(s) EXCEPT !.hooks = hooks, !.default = DefaultAfter(s, hooks, id)])
    /\ Moved(s, FALSE) /\ Gone(s, TRUE)
    /\ UNCHANGED <<wbDefaults, wbNow, wbNumber, wbReached>> /\ UNCHANGED sendLogVars

\* update_webhook changes the first webhook of the id, whose name is not compared with the others'.
UpdateWebhook(s, id, name, enabled) ==
    /\ Operation /\ WithId(s, id) # {}
    /\ LET hooks == [Hooks(s) EXCEPT ![Min(WithId(s, id))].name = name, ![Min(WithId(s, id))].enabled = enabled]
       IN  InPlace(s, hooks) /\ Save(s, [Config(s) EXCEPT !.hooks = hooks])
    /\ Moved(s, FALSE) /\ Gone(s, FALSE)
    /\ UNCHANGED <<wbNow, wbNumber, wbReached>> /\ UNCHANGED sendLogVars

\* update_slack_config and update_webhook_config; Slack's takes any default_webhook, the other has none.
SaveSettings(s, enabled) ==
    /\ Operation /\ Save(s, [Config(s) EXCEPT !.enabled = enabled])
    /\ Moved(s, FALSE) /\ Gone(s, FALSE)
    /\ UNCHANGED <<wbDefaults, wbNow, wbNumber, wbReached>> /\ UNCHANGED sendLogVars

SetDefault(id) ==
    /\ Operation /\ Save(Slack, [Config(Slack) EXCEPT !.default = id])
    /\ Moved(Slack, TRUE) /\ Gone(Slack, FALSE)
    /\ UNCHANGED <<wbDefaults, wbNow, wbNumber, wbReached>> /\ UNCHANGED sendLogVars

(* --------------------------------- sending -------------------------------- *)

\* save_history_entry: a history that cannot be read is an empty one.  The error of a write is swallowed.
ReadLog == IF wbLogText = "whole" THEN wbLog ELSE <<>>
KeptSends(log) == IF Len(log) > KeepSends THEN SubSeq(log, Len(log) - KeepSends + 1, Len(log)) ELSE log
Record(entry) ==
    \/ wbLogText' = "whole" /\ wbLog' = Append(KeptSends(ReadLog), entry) /\ UNCHANGED wbFaults
    \/ wbLogText' = "cut" /\ wbLog' = <<>> /\ wbFaults < MaxHookFaults /\ wbFaults' = wbFaults + 1

Target(id) == Hooks(Generic)[Min(WithId(Generic, id))]

\* send_webhook: up to Retries calls with pauses between them, the first 2xx ends them.
SendWebhook(id) ==
    /\ OnLoop /\ WithId(Generic, id) # {}
    /\ Config(Generic).enabled /\ Target(id).enabled
    /\ wbSend' = [NotSending EXCEPT !.id = id, !.stage = "post"]
    /\ UNCHANGED <<wbText, wbSaved, wbDefaults, wbNow, wbNumber, wbMoved, wbGone, wbReached, wbUnsaved, wbFaults>>
    /\ UNCHANGED sendLogVars

AfterFailure(tries) == IF tries < Retries THEN "post" ELSE "failed"

\* An answer is recorded whatever it says, a call without one is not.
Post(answer) ==
    /\ wbSend.stage = "post"
    /\ wbSend' = [wbSend EXCEPT !.tries = @ + 1, !.ok = answer = "ok",
                                !.stage = IF answer = "timeout" THEN AfterFailure(wbSend.tries + 1) ELSE "log"]
    /\ wbReached' = IF answer = "ok" THEN [wbReached EXCEPT ![Target(wbSend.id).number] = @ + 1] ELSE wbReached
    /\ UNCHANGED <<wbText, wbSaved, wbDefaults, wbNow, wbNumber, wbMoved, wbGone, wbUnsaved, wbSteps, wbFaults>>
    /\ UNCHANGED sendLogVars

\* When all calls have failed, that is recorded besides.
RecordSend ==
    /\ wbSend.stage \in {"log", "failed"}
    /\ Record(<<Target(wbSend.id).number, IF wbSend.ok THEN "ok" ELSE wbSend.stage>>)
    /\ wbSend' = [wbSend EXCEPT !.stage = IF wbSend.ok \/ @ = "failed" THEN "count" ELSE AfterFailure(wbSend.tries)]
    /\ UNCHANGED <<wbText, wbSaved, wbDefaults, wbNow, wbNumber, wbMoved, wbGone, wbReached, wbUnsaved, wbSteps>>

CountTries(send) == send.tries                                             \* a mutant
Count(send) == IF send.ok THEN 1 ELSE 0

CountSend ==
    /\ wbSend.stage = "count" /\ wbSend' = NotSending
    /\ LET hooks == [Hooks(Generic) EXCEPT ![Min(WithId(Generic, wbSend.id))].sent = @ + Count(wbSend)]
       IN  InPlace(Generic, hooks) /\ Save(Generic, [Config(Generic) EXCEPT !.hooks = hooks])
    /\ Moved(Generic, FALSE) /\ Gone(Generic, FALSE)
    /\ UNCHANGED <<wbNow, wbNumber, wbReached, wbSteps>> /\ UNCHANGED sendLogVars

\* send_notification finds a webhook by id or by the default, calls it once and changes nothing.
SlackTarget(id) ==
    LET wanted == IF id = NoDefault THEN Config(Slack).default ELSE id
    IN  IF WithId(Slack, wanted) = {} THEN NoDefault ELSE Hooks(Slack)[Min(WithId(Slack, wanted))].id

ClearHistory ==
    /\ Operation /\ wbLogText # "none" /\ wbLogText' = "none" /\ wbLog' = <<>>
    /\ UNCHANGED <<wbText, wbSaved, wbDefaults, wbNow, wbNumber, wbMoved, wbGone, wbReached, wbUnsaved, wbFaults>>

Tick ==
    /\ wbNow < MaxTime /\ wbNow' = wbNow + 1
    /\ UNCHANGED <<wbText, wbSaved, wbDefaults, wbLogText, wbLog, wbNumber, wbMoved, wbGone, wbReached, wbUnsaved, wbSend, wbSteps, wbFaults>>

\* A process dies, in the midst of a send perhaps; the module's defaults are empty in a new one.
NewProcess ==
    /\ wbFaults < MaxHookFaults /\ wbFaults' = wbFaults + 1
    /\ wbDefaults' = [s \in Stores |-> <<>>] /\ wbSend' = NotSending
    /\ wbUnsaved' = IF wbSend.ok THEN wbUnsaved \cup {Target(wbSend.id).number} ELSE wbUnsaved
    /\ UNCHANGED <<wbText, wbSaved, wbLogText, wbLog, wbNow, wbNumber, wbMoved, wbGone, wbReached, wbSteps>>

Ids(s) == {Hooks(s)[i].id : i \in DOMAIN Hooks(s)}

WebhookNext ==
    \/ \E s \in Stores, name \in HookNames : AddWebhook(s, name)
    \/ \E s \in Stores : \E id \in Ids(s) :
        RemoveWebhook(s, id) \/ \E name \in HookNames, enabled \in BOOLEAN : UpdateWebhook(s, id, name, enabled)
    \/ \E s \in Stores, enabled \in BOOLEAN : SaveSettings(s, enabled)
    \/ \E id \in Ids(Slack) \cup {<<0>>} : SetDefault(id)
    \/ \E id \in Ids(Generic) : SendWebhook(id)
    \/ \E answer \in {"ok", "refused", "timeout"} : Post(answer)
    \/ RecordSend \/ CountSend
    \/ ClearHistory \/ Tick \/ NewProcess

WebhookSpec == WebhookInit /\ [][WebhookNext]_webhookVars

(* -------------------------------- properties ------------------------------ *)

\* Two webhooks of a store share an id only when one of the store was removed, or its list replaced, in the
\* second both were made in.
IdsExplained ==
    \A s \in Stores : \A i, j \in DOMAIN Hooks(s) :
        i # j /\ Hooks(s)[i].id = Hooks(s)[j].id => <<s, Hooks(s)[i].id[2]>> \in wbGone

\* A notification that names no webhook finds one as long as there is any, unless the settings named the
\* default or the file could not be read.
DefaultExists == SlackTarget(NoDefault) # NoDefault \/ Hooks(Slack) = <<>> \/ Slack \in wbMoved

\* A webhook's count is that of the sends that got through, the one under way included, unless a save failed or
\* the process died between the answer and the save.
UnderWay(h) == wbSend.ok /\ h.number = Target(wbSend.id).number
CountsMatch ==
    \A i \in DOMAIN Hooks(Generic) :
        LET h == Hooks(Generic)[i]
        IN  h.sent + (IF UnderWay(h) THEN 1 ELSE 0) = wbReached[h.number] \/ h.number \in wbUnsaved

\* The two stores after any sequence of operations, cut-off saves, and deaths between the steps of a send.
HooksKept == IdsExplained /\ DefaultExists /\ CountsMatch
===============================================================================
