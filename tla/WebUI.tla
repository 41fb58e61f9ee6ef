--------------------------------- MODULE WebUI ---------------------------------
(***************************************************************************)
(* Browser tabs that edit the configuration (web/js/core.js, app.js) over   *)
(* the REST API.  A tab holds one copy of the configuration and its         *)
(* revision (state.config), reloaded by a poll every two seconds and after  *)
(* every save.  A form or a YAML editor works on a copy made when it was    *)
(* opened; saving sends the revision the tab holds by then as If-Match.     *)
(***************************************************************************)
EXTENDS Naturals, Sequences, FiniteSets

CONSTANTS Tabs, Files, Contents, FirstFiles,
          MaxRevs,    \* bound on the history
          MaxFetches     \* bound on the answers to GET /config in flight, per tab

ASSUME WebAssumption ==
  /\ FirstFiles \in [Files -> Contents]
  /\ MaxRevs \in Nat \ {0}
  /\ MaxFetches \in Nat \ {0}

VARIABLES saved,   \* the history the server keeps; the last is HEAD
          desired,   \* Status.desiredCommit, 0 before the first reconcile
          view,      \* tab -> state.config.revision
          fetches,   \* tab -> revisions in answers to GET /config on their way
          dialog,    \* tab -> the open form: its file, the revision it was copied from, and
                     \* (ghost) whether the tab has kept that revision ever since
          put        \* tab -> the save under way

tabsVars == <<saved, desired, view, fetches, dialog, put>>

SavedHead == Len(saved)
SavedRevs == 1..MaxRevs
Closed == [file |-> "none", seen |-> 0, tab |-> "moved"]
NoSave == [state |-> "idle"]

TabsTypeOK ==
  /\ saved \in Seq([Files -> Contents]) /\ SavedHead \in SavedRevs
  /\ desired \in 0..MaxRevs
  /\ view \in [Tabs -> SavedRevs]
  /\ fetches \in [Tabs -> SUBSET SavedRevs]
  /\ dialog \in [Tabs -> [file : Files, seen : SavedRevs, tab : {"kept", "moved"}] \cup {Closed}]
  /\ put \in [Tabs -> {NoSave} \cup [state : {"reload"}, rev : SavedRevs] \cup
                      [state : {"sent", "saved", "conflict", "unchanged", "error"},
                       file : Files, content : Contents, base : SavedRevs, seen : SavedRevs,
                       tab : {"kept", "moved"}]]

TabsInit ==
  /\ saved = <<FirstFiles>>
  /\ desired = 0
  /\ view = [t \in Tabs |-> 1]
  /\ fetches = [t \in Tabs |-> {}]
  /\ dialog = [t \in Tabs |-> Closed]
  /\ put = [t \in Tabs |-> NoSave]

-----------------------------------------------------------------------------
(* Editing.  Bound: a user who closes a form that is being saved opens no  *)
(* other one before the answer is there.                                   *)

\* objectForm copies the object out of the tab's own configuration.
OpenForm(t) ==
  /\ dialog[t] = Closed
  /\ put[t] = NoSave
  /\ \E f \in Files : dialog' = [dialog EXCEPT ![t] = [file |-> f, seen |-> view[t], tab |-> "kept"]]
  /\ UNCHANGED <<saved, desired, view, fetches, put>>

\* yamlEditor asks the server for the file, which answers with HEAD's.
OpenYAML(t) ==
  /\ dialog[t] = Closed
  /\ put[t] = NoSave
  /\ \E f \in Files :
       dialog' = [dialog EXCEPT ![t] = [file |-> f, seen |-> SavedHead,
                                        tab |-> IF view[t] = SavedHead THEN "kept" ELSE "moved"]]
  /\ UNCHANGED <<saved, desired, view, fetches, put>>

\* Also while a save is under way: the save goes on.
Cancel(t) ==
  /\ dialog[t] # Closed
  /\ dialog' = [dialog EXCEPT ![t] = Closed]
  /\ UNCHANGED <<saved, desired, view, fetches, put>>

\* The revision save sends.
IfMatch(t) == view[t]

\* save: the form's content goes out with the tab's revision of this moment.
\* The button is disabled until the answer is there.
Submit(t) ==
  /\ dialog[t] # Closed
  /\ put[t] = NoSave
  /\ \E v \in Contents :
       put' = [put EXCEPT ![t] = [state |-> "sent", file |-> dialog[t].file,
                                  content |-> v, base |-> IfMatch(t),
                                  seen |-> dialog[t].seen, tab |-> dialog[t].tab]]
  /\ UNCHANGED <<saved, desired, view, fetches, dialog>>

-----------------------------------------------------------------------------
(* The server *)

Current(f) == saved[SavedHead][f]

Conflicts(p) == saved[p.base][p.file] # Current(p.file)

\* Update: a conflict if the file differs between the base and HEAD; nothing
\* to commit if the content is HEAD's; otherwise a commit.
ServeSave(t) ==
  /\ put[t].state = "sent"
  /\ LET p == put[t] IN
     \/ /\ Conflicts(p)
        /\ put' = [put EXCEPT ![t].state = "conflict"]
        /\ UNCHANGED saved
     \/ /\ ~Conflicts(p)
        /\ p.content = Current(p.file)
        /\ put' = [put EXCEPT ![t].state = "unchanged"]
        /\ UNCHANGED saved
     \/ /\ ~Conflicts(p)
        /\ p.content # Current(p.file)
        /\ SavedHead < MaxRevs
        /\ saved' = Append(saved, [saved[SavedHead] EXCEPT ![p.file] = p.content])
        /\ put' = [put EXCEPT ![t].state = "saved"]
  /\ UNCHANGED <<desired, view, fetches, dialog>>

\* A save that fails on the server, here at the bound of the history.
ServeFull(t) ==
  /\ put[t].state = "sent"
  /\ SavedHead = MaxRevs
  /\ put' = [put EXCEPT ![t].state = "error"]
  /\ UNCHANGED <<saved, desired, view, fetches, dialog>>

\* The Reconciler reads HEAD some time after the commit.
Reconcile ==
  /\ desired # SavedHead
  /\ desired' = SavedHead
  /\ UNCHANGED <<saved, view, fetches, dialog, put>>

-----------------------------------------------------------------------------
(* Answers and polls *)

\* Saved or in conflict: save awaits loadConfig, which the server answers now.
Answered(t) ==
  /\ put[t].state \in {"saved", "conflict"}
  /\ put' = [put EXCEPT ![t] = [state |-> "reload", rev |-> SavedHead]]
  /\ UNCHANGED <<saved, desired, view, fetches, dialog>>

\* Mutant: the form stays open, to be saved again over what was reloaded.
Mutant_Shut(t) == dialog

Shut(t) == [dialog EXCEPT ![t] = Closed]

\* ... and its arrival closes the form, after a save and after a conflict.
Reloaded(t) ==
  /\ put[t].state = "reload"
  /\ view' = [view EXCEPT ![t] = put[t].rev]
  /\ put' = [put EXCEPT ![t] = NoSave]
  /\ dialog' = Shut(t)
  /\ UNCHANGED <<saved, desired, fetches>>

\* "Nothing changed" is a 409 as well: the form closes, without a reload.  Any
\* other refusal leaves it open.
Refused(t) ==
  /\ put[t].state \in {"unchanged", "error"}
  /\ put' = [put EXCEPT ![t] = NoSave]
  /\ dialog' = IF put[t].state = "unchanged" THEN Shut(t) ELSE dialog
  /\ UNCHANGED <<saved, desired, view, fetches>>

\* Mutant: only a tab behind by more than one commit reloads.
Mutant_Outdated(t) == desired > view[t] + 1

\* The tab's revision is not the one the Reconciler works on.
Outdated(t) == desired # 0 /\ desired # view[t]

\* poll: the tab reloads, with or without a form open.
Poll(t) ==
  /\ Outdated(t)
  /\ Cardinality(fetches[t]) < MaxFetches
  /\ fetches' = [fetches EXCEPT ![t] = @ \cup {SavedHead}]
  /\ UNCHANGED <<saved, desired, view, dialog, put>>

\* Answers to overlapping polls arrive in any order; the form, if one is open,
\* keeps its copy.
Arrive(t) ==
  /\ \E r \in fetches[t] :
       /\ view' = [view EXCEPT ![t] = r]
       /\ fetches' = [fetches EXCEPT ![t] = @ \ {r}]
       /\ dialog' = [dialog EXCEPT ![t].tab = IF r = view[t] THEN @ ELSE "moved"]
  /\ UNCHANGED <<saved, desired, put>>

TabUser(t) == OpenForm(t) \/ OpenYAML(t) \/ Cancel(t) \/ Submit(t)
Browser(t) == Answered(t) \/ Reloaded(t) \/ Refused(t)
Server(t) == ServeSave(t) \/ ServeFull(t)

TabsNext ==
  \/ Reconcile
  \/ \E t \in Tabs : TabUser(t) \/ Server(t) \/ Browser(t) \/ Poll(t) \/ Arrive(t)

\* The server answers, browsers handle answers and keep polling, and the
\* Reconciler gets to HEAD (module Reconciler).  Users do what they like.
TabsFairness ==
  /\ WF_tabsVars(Reconcile)
  /\ \A t \in Tabs : /\ WF_tabsVars(Server(t)) /\ WF_tabsVars(Browser(t))
                     /\ WF_tabsVars(Poll(t)) /\ WF_tabsVars(Arrive(t))

TabsSpec == TabsInit /\ [][TabsNext]_tabsVars
FairTabsSpec == TabsSpec /\ TabsFairness

-----------------------------------------------------------------------------
(* Properties *)

\* A save from the tab is committed.
SaveLands(t) == put[t].state = "sent" /\ put'[t].state = "saved"
\* The object is as it was when the form was opened.
SameAsSeen(p) == saved[p.seen][p.file] = Current(p.file)

\* A change the user has not seen is overwritten only if a poll brought the tab
\* another revision while the form was open, or the YAML text was not of the tab's
\* revision: of two tabs that edit one object, with retries after errors and forms
\* that are closed and opened again, the second to save gets a conflict or sees
\* the change first (core.js save, objectForm and yamlEditor submit, store.go Update).
SavesOverSeen == \A t \in Tabs : SaveLands(t) /\ put[t].tab = "kept" => SameAsSeen(put[t])
LostOnlyByReload == [][SavesOverSeen]_tabsVars

\* Once commits stop, every tab ends up on HEAD and stays there, however its
\* answers were reordered (poll, loadConfig).
TabsConverge == \A t \in Tabs : <>[](view[t] = SavedHead)

\* core.js:211 says of save: "sends a write with the revision the user
\* edited", and README.md:76 of editing the same object in two tabs: "Second
\* save gets 409".  So a save never overwrites a change the user has not seen.
NoLostUpdate == [][\A t \in Tabs : SaveLands(t) => SameAsSeen(put[t])]_tabsVars
=============================================================================
