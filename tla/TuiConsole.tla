----------------------------- MODULE TuiConsole -----------------------------
(***************************************************************************)
(* The terminal UI's management screens (internal/tui/app.go): one operator *)
(* at the keyboard, lists fetched in the background, and other              *)
(* administrators who change the same records.  Bubble Tea calls Update for *)
(* one message at a time; a key that writes calls the API within Update,    *)
(* and a fetch runs in a goroutine of its own whose message arrives some    *)
(* time later, in any order with the others.                                *)
(*                                                                         *)
(* A record is its id and whether it is enabled (a route always is): names, *)
(* limits and targets, and so the text typed into a form, are left out.     *)
(* Screens that have no list and no action are left out too.                *)
(***************************************************************************)
EXTENDS Naturals, SequencesExt

CONSTANTS
  TabOrder,    \* the screens with a list, in the order fetchData asks for them
  Ids,         \* the ids each screen's records may have, numbers as their names sort
  Slots,       \* bound: fetches in flight at once
  NoId         \* no record

Tabs == Range(TabOrder)

ASSUME ConsoleAssumption ==
  /\ TabOrder \in Seq(STRING)
  /\ \A t \in Tabs : IsFiniteSet(Ids[t])

VARIABLES
  server,      \* external: the records behind each screen, id -> enabled
  issued,      \* external: the ids ever given out; a key or profile never gets one twice
  activeTab,   \* m.activeTab
  rows,        \* m.keys, m.proxies, m.routes as resourceList orders them
  dialog,      \* m.form and m.confirm, of which at most one is open; history: what row
               \* was selected on which screen when it was opened
  fetching,    \* the fetches in flight: what each has read so far
  wrote        \* history: the last write for a record, and the dialog it came from

console == <<activeTab, rows, dialog, wrote>>
vars == <<server, issued, activeTab, rows, dialog, fetching, wrote>>

Row(id, on) == [id |-> id, on |-> on]
Rows(t) == [id : Ids[t], on : BOOLEAN]

\* The records behind a screen; a route has no switch.
Records == UNION {[S -> BOOLEAN] : S \in SUBSET UNION {Ids[t] : t \in Tabs}}
AllOn(records) == FALSE \notin Range(records)

\* The lists the API may answer with: a Go map has no order, but routes are sorted.
Listings(t) ==
  LET all == {Row(id, server[t][id]) : id \in DOMAIN server[t]}
      Sorted(list) == \A i, j \in DOMAIN list : i < j => list[i].id < list[j].id
  IN  {list \in SetToSeqs(all) : t = "ROUTING" => Sorted(list)}

\* What a request brought: a list, or nothing if it timed out or was refused.
List(list) == {list}
NoList == {}

Closed == [kind |-> "none", tab |-> "none", id |-> NoId]
NoWrite == [kind |-> "none", tab |-> "none", id |-> NoId, from |-> Closed]

Idle == [busy |-> FALSE, got |-> <<>>]

Init ==
  /\ server \in [Tabs -> Records]
  /\ \A t \in Tabs : DOMAIN server[t] \subseteq Ids[t] /\ (t = "ROUTING" => AllOn(server[t]))
  /\ issued = [t \in Tabs |-> DOMAIN server[t]]
  /\ activeTab \in Tabs
  /\ rows = [t \in Tabs |-> <<>>]
  /\ dialog = Closed
  /\ fetching = [s \in Slots |-> IF s = 1 THEN [Idle EXCEPT !.busy = TRUE] ELSE Idle]
  /\ wrote = NoWrite

-----------------------------------------------------------------------------

\* resourceID: m.selected is never assigned, so the selected row is the first.
SelectedId == IF rows[activeTab] = <<>> THEN NoId ELSE Head(rows[activeTab]).id

Toggles(t) == t # "ROUTING"

\* tab, arrows and digits: keys of the open form or confirmation otherwise.
SwitchTab(t) ==
  /\ dialog = Closed
  /\ activeTab' = t
  /\ wrote' = NoWrite
  /\ UNCHANGED <<server, issued, rows, dialog, fetching>>

\* A command that runs fetchData.
Fetch(s) ==
  /\ ~fetching[s].busy
  /\ fetching' = [fetching EXCEPT ![s] = [busy |-> TRUE, got |-> <<>>]]

\* r
Refresh(s) ==
  /\ dialog = Closed
  /\ Fetch(s)
  /\ wrote' = NoWrite
  /\ UNCHANGED <<server, issued, activeTab, rows, dialog>>

\* a, e, d and x open a form or ask for confirmation; e needs a selected row.
Open(kind) ==
  /\ dialog = Closed
  /\ kind = "edit" => SelectedId # NoId
  /\ kind = "toggle" => Toggles(activeTab)
  /\ dialog' = [kind |-> kind, tab |-> activeTab, id |-> SelectedId]
  /\ wrote' = NoWrite
  /\ UNCHANGED <<server, issued, activeTab, rows, fetching>>

\* esc, or n for a confirmation.
Cancel ==
  /\ dialog # Closed
  /\ dialog' = Closed
  /\ wrote' = NoWrite
  /\ UNCHANGED <<server, issued, activeTab, rows, fetching>>

\* The records of screen t after one is put or deleted.
With(t, id, on) == [server EXCEPT ![t] = [i \in DOMAIN @ \cup {id} |-> IF i = id THEN on ELSE @[i]]]
Without(t, id) == [server EXCEPT ![t] = [i \in DOMAIN @ \ {id} |-> @[i]]]

\* enter in a create form: POST, or PUT for a route, whose alias the operator types.
SubmitCreate(s) ==
  /\ dialog.kind = "create"
  /\ \/ \E id \in Ids[activeTab] \ (IF activeTab = "ROUTING" THEN {} ELSE issued[activeTab]) :
          /\ server' = With(activeTab, id, TRUE)
          /\ issued' = [issued EXCEPT ![activeTab] = @ \cup {id}]
     \/ UNCHANGED <<server, issued>>        \* refused, or not delivered
  /\ dialog' = Closed
  /\ Fetch(s)
  /\ UNCHANGED <<activeTab, rows, wrote>>

Sent(kind, id) == wrote' = [kind |-> kind, tab |-> activeTab, id |-> id, from |-> dialog]

\* Wrong on purpose: the id is looked up when the form is submitted.
SubmitEditOfSelected(s) ==
  /\ dialog.kind = "edit"
  /\ Sent("edit", SelectedId)
  /\ dialog' = Closed
  /\ Fetch(s)
  /\ UNCHANGED <<server, issued, activeTab, rows>>

\* enter in an edit form: PUT to the id the form was opened for, if that exists.  A PUT of
\* a route creates it.
SubmitEdit(s) ==
  /\ dialog.kind = "edit"
  /\ Sent("edit", dialog.id)
  /\ \/ activeTab = "ROUTING" /\ server' = With(activeTab, dialog.id, TRUE)
     \/ UNCHANGED server
  /\ dialog' = Closed
  /\ Fetch(s)
  /\ UNCHANGED <<issued, activeTab, rows>>

\* y: doConfirmAction on the row that is selected now.
Confirm(s) ==
  /\ dialog.kind \in {"delete", "toggle"}
  /\ IF SelectedId = NoId
       THEN UNCHANGED <<server, wrote>>
       ELSE /\ Sent(dialog.kind, SelectedId)
            /\ \/ /\ SelectedId \in DOMAIN server[activeTab]
                  /\ server' = IF dialog.kind = "delete"
                                 THEN Without(activeTab, SelectedId)
                                 ELSE With(activeTab, SelectedId, ~Head(rows[activeTab]).on)
               \/ UNCHANGED server          \* gone already, or not delivered
  /\ dialog' = Closed
  /\ Fetch(s)
  /\ UNCHANGED <<issued, activeTab, rows>>

-----------------------------------------------------------------------------

Reading(s) == fetching[s].busy /\ Len(fetching[s].got) < Len(TabOrder)
Got(s, list) == fetching' = [fetching EXCEPT ![s].got = Append(@, list)]

\* The next GET of a fetch is answered with the list, or it fails.
Read(s) ==
  /\ Reading(s)
  /\ \E list \in Listings(TabOrder[Len(fetching[s].got) + 1]) : Got(s, List(list))
  /\ UNCHANGED <<server, issued, console>>

ReadFails(s) ==
  /\ Reading(s)
  /\ Got(s, NoList)
  /\ UNCHANGED <<server, issued, console>>

\* What fetch s brought for screen t.
Brought(s, t) == fetching[s].got[CHOOSE n \in DOMAIN TabOrder : TabOrder[n] = t]
Only(some) == CHOOSE list \in some : TRUE

\* Wrong on purpose: a list is added to the one on the screen.
DeliverAppends(s) ==
  /\ fetching[s].busy /\ ~Reading(s)
  /\ rows' = [t \in Tabs |->
                IF Brought(s, t) = NoList THEN rows[t] ELSE rows[t] \o Only(Brought(s, t))]
  /\ fetching' = [fetching EXCEPT ![s] = Idle]
  /\ UNCHANGED <<server, issued, activeTab, dialog, wrote>>

\* Wrong on purpose: an empty list is taken for a failed request.
DeliverNonEmpty(s) ==
  /\ fetching[s].busy /\ ~Reading(s)
  /\ rows' = [t \in Tabs |->
                IF Brought(s, t) \in {NoList, List(<<>>)} THEN rows[t] ELSE Only(Brought(s, t))]
  /\ fetching' = [fetching EXCEPT ![s] = Idle]
  /\ UNCHANGED <<server, issued, activeTab, dialog, wrote>>

\* dataLoadedMsg: each list that was read replaces the one on the screen.
Deliver(s) ==
  /\ fetching[s].busy /\ ~Reading(s)
  /\ rows' = [t \in Tabs |->
                IF Brought(s, t) = NoList THEN rows[t] ELSE Only(Brought(s, t))]
  /\ fetching' = [fetching EXCEPT ![s] = Idle]
  /\ UNCHANGED <<server, issued, activeTab, dialog, wrote>>

\* Other administrators create, change and delete records.
OthersCreate(t, id) ==
  /\ id \notin DOMAIN server[t] /\ (t = "ROUTING" \/ id \notin issued[t])
  /\ server' = With(t, id, TRUE)
  /\ issued' = [issued EXCEPT ![t] = @ \cup {id}]
  /\ UNCHANGED <<console, fetching>>

OthersToggle(t, id) ==
  /\ Toggles(t) /\ id \in DOMAIN server[t]
  /\ server' = With(t, id, ~server[t][id])
  /\ UNCHANGED <<issued, console, fetching>>

OthersDelete(t, id) ==
  /\ id \in DOMAIN server[t]
  /\ server' = Without(t, id)
  /\ UNCHANGED <<issued, console, fetching>>

Next ==
  \/ \E t \in Tabs : SwitchTab(t)
  \/ \E kind \in {"create", "edit", "delete", "toggle"} : Open(kind)
  \/ Cancel
  \/ \E s \in Slots : \/ Refresh(s) \/ SubmitCreate(s) \/ SubmitEdit(s) \/ Confirm(s)
                      \/ Read(s) \/ ReadFails(s) \/ Deliver(s)
  \/ \E t \in Tabs : \E id \in Ids[t] :
       OthersCreate(t, id) \/ OthersToggle(t, id) \/ OthersDelete(t, id)

Spec == Init /\ [][Next]_vars

\* A fetch goes on and its message is handled; no list's request fails every time.
Fetches ==
  \A s \in Slots :
    /\ WF_vars(Read(s) \/ ReadFails(s))
    /\ \A n \in DOMAIN TabOrder : SF_vars(Len(fetching[s].got) = n - 1 /\ Read(s))
    /\ WF_vars(Deliver(s))

\* The operator closes dialogs, and refreshes the lists now and then.
Operator == WF_vars(Cancel) /\ SF_vars(\E s \in Slots : Refresh(s))

FairSpec == Spec /\ Fetches /\ Operator

-----------------------------------------------------------------------------

Lists(t) == SetToAllKPermutations(Rows(t))

TypeOK ==
  /\ \A t \in Tabs : /\ DOMAIN server[t] \subseteq issued[t]
                     /\ issued[t] \subseteq Ids[t]
                     /\ Range(server[t]) \subseteq BOOLEAN
                     /\ rows[t] \in Lists(t)
  /\ activeTab \in Tabs
  /\ dialog.kind \in {"none", "create", "edit", "delete", "toggle"}
  /\ \A s \in Slots : Len(fetching[s].got) <= Len(TabOrder)

(***************************************************************************)
(* A form edits the record it was filled from: whatever lists arrive while  *)
(* it is open, and however they are ordered, enter sends the fields to the  *)
(* record the operator saw them of (app.go:467, 489, 498, 505), and every   *)
(* write leaves from the screen on which its dialog was opened.             *)
(***************************************************************************)
EditsGoWhereTheyWereFilled ==
  wrote.kind # "none" =>
    /\ wrote.tab = wrote.from.tab
    /\ wrote.kind = "edit" => wrote.id = wrote.from.id

(***************************************************************************)
(* The screen catches up: once nobody changes the records of a screen any   *)
(* more, it shows exactly those for good, although old fetches arrive late  *)
(* and out of order, requests fail, and a failed one leaves the old list.   *)
(***************************************************************************)
ScreenCatchesUp ==
  \A t \in Tabs :
    <>[][UNCHANGED server[t]]_server
      => <>[](Range(rows[t]) = {Row(id, server[t][id]) : id \in DOMAIN server[t]})

(***************************************************************************)
(* app.go:364-366 says that "the selected cursor, delete/toggle targets,    *)
(* and edit pre-fill all hit the same alias": what y deletes or toggles is  *)
(* the record that was selected when the confirmation was asked for.        *)
(***************************************************************************)
ConfirmedRecordIsTheChosenOne ==
  wrote.kind \in {"delete", "toggle"} /\ wrote.from.id # NoId => wrote.id = wrote.from.id
=============================================================================
