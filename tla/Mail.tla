--------------------------------- MODULE Mail ---------------------------------
(***************************************************************************)
(* E-mail reports (web/email_reports.py): the settings and the history of  *)
(* what was sent, each a JSON file and a global of the studio's process.   *)
(*                                                                         *)
(* Endpoints change the settings, send, and list what was sent on the     *)
(* event loop; the thread of the scheduled exports sends as well.  Every   *)
(* call loads the file into the global first: it reads the file, where one *)
(* that cannot be read counts as the defaults (an empty history), and then *)
(* binds the global anew.  A save truncates the file before it writes what *)
(* the global holds by then, and an error of the write is swallowed.       *)
(* Nothing is locked.                                                      *)
(***************************************************************************)
EXTENDS Integers, SequencesExt

CONSTANTS
    MailLoop, MailThreads,   \* who sends: the event loop and the exports' threads
    KeepMails,         \* entries kept of the history, 100 in the code
    MaxMails, MaxSettings, MaxMailFaults

ASSUME MailAssumption == KeepMails \in Nat \ {0} /\ MaxMails \in Nat /\ MaxSettings \in Nat /\ MaxMailFaults \in Nat

VARIABLES
    mlText,      \* the settings' file: "none", "cut" or "whole"
    mlFile,      \* the settings in it
    mlConfig,    \* EMAIL_CONFIG
    mlAsked,     \* history: the settings the updates asked for
    mlSpoiled,   \* history: a load crossed an update, or a save of the settings was cut off
    mlRead,      \* the settings each sender has read and not yet bound
    mlLogText, mlLog,   \* the history's file; what it holds is nothing unless it is whole
    mlHistory,   \* EMAIL_HISTORY
    mlAt, mlMail,   \* where each sender is, and its mail
    mlMine,      \* the history each has read and not yet bound, or saves
    mlShared,    \* whose saved list is EMAIL_HISTORY itself
    mlTold,      \* history: mails whose recording has ended
    mlExcused,   \* history: mails another's load, a cut file or the cap may have lost
    mlMails, mlSettings, mlFaults

mailVars == <<mlText, mlFile, mlConfig, mlAsked, mlSpoiled, mlRead, mlLogText, mlLog, mlHistory,
              mlAt, mlMail, mlMine, mlShared, mlTold, mlExcused, mlMails, mlSettings, mlFaults>>
settingsVars == <<mlText, mlFile, mlConfig, mlAsked, mlSpoiled, mlRead>>
logVars      == <<mlLogText, mlLog, mlHistory, mlMine, mlShared, mlTold, mlExcused>>

Senders == {MailLoop} \cup MailThreads

\* Two settings of many; 0 is the default of each.
Fields   == {"enabled", "sender"}
Defaults == [x \in Fields |-> 0]

MailInit ==
    /\ mlText = "none" /\ mlFile = Defaults /\ mlConfig = Defaults /\ mlAsked = Defaults /\ mlSpoiled = FALSE
    /\ mlRead = [s \in Senders |-> Defaults]
    /\ mlLogText = "none" /\ mlLog = <<>> /\ mlHistory = <<>>
    /\ mlAt = [s \in Senders |-> "idle"] /\ mlMail = [s \in Senders |-> 0]
    /\ mlMine = [s \in Senders |-> <<>>] /\ mlShared = {}
    /\ mlTold = {} /\ mlExcused = {} /\ mlMails = 0 /\ mlSettings = 0 /\ mlFaults = 0

MailAt(s, place) == mlAt' = [mlAt EXCEPT ![s] = place]

(* -------------------------------- settings -------------------------------- *)

\* load_email_config.  Only the loop writes the file, so its own load is one step.
Loaded == IF mlText = "whole" THEN mlFile ELSE Defaults
Load   == mlConfig' = Loaded /\ UNCHANGED <<mlText, mlFile, mlAsked, mlSpoiled, mlRead>>

\* get_email_config, test_email_connection
ReadSettings ==
    /\ mlAt[MailLoop] = "idle" /\ Load
    /\ UNCHANGED <<mlAt, mlMail, mlMails, mlSettings, mlFaults>> /\ UNCHANGED logVars

UpdateUnloaded ==                                                          \* a mutant
    /\ mlAt[MailLoop] = "idle" /\ mlSettings < MaxSettings /\ MailAt(MailLoop, "update")
    /\ UNCHANGED <<mlMail, mlMails, mlSettings, mlFaults>> /\ UNCHANGED settingsVars /\ UNCHANGED logVars

\* update_email_config: load, set what is given, save.
Update ==
    /\ mlAt[MailLoop] = "idle" /\ mlSettings < MaxSettings /\ Load /\ MailAt(MailLoop, "update")
    /\ UNCHANGED <<mlMail, mlMails, mlSettings, mlFaults>> /\ UNCHANGED logVars

SetField(x) ==
    /\ mlAt[MailLoop] = "update" /\ MailAt(MailLoop, "set")
    /\ mlSettings' = mlSettings + 1
    /\ mlConfig' = [mlConfig EXCEPT ![x] = mlSettings + 1]
    /\ mlAsked' = [mlAsked EXCEPT ![x] = mlSettings + 1]
    /\ UNCHANGED <<mlText, mlFile, mlSpoiled, mlRead, mlMail, mlMails, mlFaults>> /\ UNCHANGED logVars

OpenSettings ==
    /\ mlAt[MailLoop] = "set" /\ MailAt(MailLoop, "settings")
    /\ mlText' = "cut"
    /\ UNCHANGED <<mlFile, mlConfig, mlAsked, mlSpoiled, mlRead, mlMail, mlMails, mlSettings, mlFaults>>
    /\ UNCHANGED logVars

\* What is written is what the global holds now; an error of the write is swallowed.
WriteSettings ==
    /\ mlAt[MailLoop] = "settings" /\ MailAt(MailLoop, "idle")
    /\ \/ mlText' = "whole" /\ mlFile' = mlConfig /\ UNCHANGED <<mlSpoiled, mlFaults>>
       \/ mlFaults < MaxMailFaults /\ mlFaults' = mlFaults + 1 /\ mlSpoiled' = TRUE /\ UNCHANGED <<mlText, mlFile>>
    /\ UNCHANGED <<mlConfig, mlAsked, mlRead, mlMail, mlMails, mlSettings>> /\ UNCHANGED logVars

(* --------------------------------- sending -------------------------------- *)

\* send_email, from an endpoint or for a dashboard's report: the settings are read ...
SendMail(s) ==
    /\ mlAt[s] = "idle" /\ mlMails < MaxMails /\ MailAt(s, "load")
    /\ mlMails' = mlMails + 1
    /\ mlMail' = [mlMail EXCEPT ![s] = mlMails + 1]
    /\ mlRead' = [mlRead EXCEPT ![s] = Loaded]
    /\ UNCHANGED <<mlText, mlFile, mlConfig, mlAsked, mlSpoiled, mlSettings, mlFaults>> /\ UNCHANGED logVars

\* ... and bound, whatever the loop has loaded or set since.
BindSettings(s) ==
    /\ mlAt[s] = "load" /\ MailAt(s, "check")
    /\ mlConfig' = mlRead[s]
    /\ mlRead' = [mlRead EXCEPT ![s] = Defaults]
    /\ mlSpoiled' = (\/ mlSpoiled
                     \/ mlAt[MailLoop] \in {"set", "settings"}
                     \/ mlAt[MailLoop] = "update" /\ mlRead[s] # mlConfig)
    /\ UNCHANGED <<mlText, mlFile, mlAsked, mlMail, mlMails, mlSettings, mlFaults>> /\ UNCHANGED logVars

\* Not enabled, or no sender: an answer, and nothing in the history.
Check(s) ==
    /\ mlAt[s] = "check"
    /\ MailAt(s, IF \A x \in Fields : mlConfig[x] # 0 THEN "deliver" ELSE "idle")
    /\ UNCHANGED <<mlMail, mlMails, mlSettings, mlFaults>> /\ UNCHANGED settingsVars /\ UNCHANGED logVars

(* -------------------------------- the history ----------------------------- *)

InRecording == {"read", "append", "save", "write"}
RecordingBut(s) == {u \in Senders \ {s} : mlAt[u] \in InRecording}

\* The list that u saves; the global bound anew leaves the old list to those who save it.
Saving(u)  == IF u \in mlShared THEN mlHistory ELSE mlMine[u]
Bind(list) == mlHistory' = list /\ mlMine' = [u \in Senders |-> Saving(u)] /\ mlShared' = {}

\* Delivered or failed, the mail is recorded; load_email_history keeps the global when there is no file.
ReadHistory(s) ==
    /\ mlAt[s] = "deliver" /\ MailAt(s, IF mlLogText = "none" THEN "append" ELSE "read")
    /\ mlMine' = [mlMine EXCEPT ![s] = mlLog]
    /\ mlExcused' = mlExcused \cup {mlMail[u] : u \in RecordingBut(s)}
                        \cup (IF RecordingBut(s) = {} /\ mlAt[MailLoop] # "listing" THEN {} ELSE {mlMail[s]})
                        \cup (IF mlLogText = "cut" THEN mlTold ELSE {})
    /\ UNCHANGED <<mlLogText, mlLog, mlHistory, mlShared, mlTold, mlMail, mlMails, mlSettings, mlFaults>>
    /\ UNCHANGED settingsVars

BindHistory(s) ==
    /\ mlAt[s] = "read" /\ MailAt(s, "append") /\ Bind(mlMine[s])
    /\ UNCHANGED <<mlLogText, mlLog, mlTold, mlExcused, mlMail, mlMails, mlSettings, mlFaults>> /\ UNCHANGED settingsVars

AppendEntry(s) ==
    /\ mlAt[s] = "append" /\ MailAt(s, "save")
    /\ mlHistory' = Append(mlHistory, mlMail[s])
    /\ UNCHANGED <<mlLogText, mlLog, mlMine, mlShared, mlTold, mlExcused, mlMail, mlMails, mlSettings, mlFaults>>
    /\ UNCHANGED settingsVars

KeptMails(list) == IF Len(list) > KeepMails THEN SubSeq(list, Len(list) - KeepMails + 1, Len(list)) ELSE list

\* save_email_history takes the list itself, or a copy of its end when it is over the cap, and truncates the file.
OpenHistory(s) ==
    /\ mlAt[s] = "save" /\ MailAt(s, "write")
    /\ mlMine' = [mlMine EXCEPT ![s] = KeptMails(mlHistory)]
    /\ mlShared' = IF Len(mlHistory) > KeepMails THEN mlShared ELSE mlShared \cup {s}
    /\ mlExcused' = mlExcused \cup (ToSet(mlHistory) \ ToSet(KeptMails(mlHistory)))
    /\ mlLogText' = "cut" /\ mlLog' = <<>>
    /\ UNCHANGED <<mlHistory, mlTold, mlMail, mlMails, mlSettings, mlFaults>> /\ UNCHANGED settingsVars

\* A shorter text over a longer one that was written since the truncation is no JSON, nor is what a write
\* that failed has left; that error is swallowed.
WriteHistory(s) ==
    /\ mlAt[s] = "write" /\ MailAt(s, "idle")
    /\ mlTold' = mlTold \cup {mlMail[s]}
    /\ mlShared' = mlShared \ {s}
    /\ \/ Len(Saving(s)) >= Len(mlLog) /\ mlLogText' = "whole" /\ mlLog' = Saving(s) /\ UNCHANGED <<mlExcused, mlFaults>>
       \/ /\ \/ Len(Saving(s)) < Len(mlLog) /\ UNCHANGED mlFaults
             \/ mlFaults < MaxMailFaults /\ mlFaults' = mlFaults + 1
          /\ mlLogText' = "cut" /\ mlLog' = <<>> /\ mlExcused' = mlExcused \cup mlTold \cup {mlMail[s]}
    /\ UNCHANGED <<mlHistory, mlMine, mlMail, mlMails, mlSettings>> /\ UNCHANGED settingsVars

\* get_email_history loads the file as well, on the loop, while the exports' threads record.
ListHistory ==
    /\ mlAt[MailLoop] = "idle" /\ mlLogText # "none" /\ MailAt(MailLoop, "listing")
    /\ mlMine' = [mlMine EXCEPT ![MailLoop] = mlLog]
    /\ mlExcused' = mlExcused \cup {mlMail[u] : u \in RecordingBut(MailLoop)}
    /\ UNCHANGED <<mlLogText, mlLog, mlHistory, mlShared, mlTold, mlMail, mlMails, mlSettings, mlFaults>>
    /\ UNCHANGED settingsVars

\* Nothing was read from a file that was cut: whoever is about to save then saves nothing but its own.
BindListing ==
    /\ mlAt[MailLoop] = "listing" /\ MailAt(MailLoop, "idle") /\ Bind(mlMine[MailLoop])
    /\ mlExcused' = IF mlMine[MailLoop] = <<>> /\ \E u \in Senders : mlAt[u] \in {"append", "save"}
                    THEN mlExcused \cup mlTold ELSE mlExcused
    /\ UNCHANGED <<mlLogText, mlLog, mlTold, mlMail, mlMails, mlSettings, mlFaults>> /\ UNCHANGED settingsVars

\* The process dies: what was being written stays cut, the globals start anew.
Restart ==
    /\ mlFaults < MaxMailFaults /\ mlFaults' = mlFaults + 1
    /\ mlConfig' = Defaults /\ mlHistory' = <<>> /\ mlShared' = {}
    /\ mlSpoiled' = (mlSpoiled \/ mlAt[MailLoop] \in {"set", "settings"})
    /\ mlExcused' = IF \E s \in Senders : mlAt[s] = "write" THEN mlExcused \cup mlTold ELSE mlExcused
    /\ mlAt' = [s \in Senders |-> "idle"]
    /\ UNCHANGED <<mlText, mlFile, mlAsked, mlRead, mlLogText, mlLog, mlMine, mlTold, mlMail, mlMails, mlSettings>>

MailNext ==
    \/ ReadSettings \/ Update \/ (\E x \in Fields : SetField(x)) \/ OpenSettings \/ WriteSettings \/ Restart
    \/ ListHistory \/ BindListing
    \/ \E s \in Senders : \/ SendMail(s) \/ BindSettings(s) \/ Check(s)
                          \/ ReadHistory(s) \/ BindHistory(s) \/ AppendEntry(s) \/ OpenHistory(s) \/ WriteHistory(s)

MailSpec == MailInit /\ [][MailNext]_mailVars

(* -------------------------------- properties ------------------------------ *)

\* The stored settings are those that were asked for, unless an export's load ended between an update's
\* change and the end of its save (or after the update's load, with other settings), or the save was cut
\* off: update_email_config answers success in every case.
SettingsExplained ==
    mlAt[MailLoop] \notin {"set", "settings"} /\ ~mlSpoiled => Loaded = mlAsked

\* A mail whose recording has ended is in the history, unless it is over the cap, its recording overlapped
\* another's or a listing of the history, or the file was read or left half written.
MailsAreRecorded ==
    (\A s \in Senders : mlAt[s] # "write") => mlTold \subseteq ToSet(mlLog) \cup mlExcused

\* Settings and history after every order of the event loop's and the exports' steps.
MailKept == SettingsExplained /\ MailsAreRecorded
===============================================================================
