-------------------------- MODULE TuiConsoleProofs --------------------------
(***************************************************************************)
(* Proofs about module TuiConsole, for any screens, records and number of   *)
(* fetches: an open dialog keeps its screen, because the keys that would    *)
(* leave it go to the dialog; and every list, on the screen or on its way,  *)
(* is one the API can have answered with and tells of records that existed. *)
(***************************************************************************)
EXTENDS TuiConsole, FiniteSetTheorems, TLAPS

DialogInv ==
  /\ dialog.kind # "none" => dialog.tab = activeTab
  /\ EditsGoWhereTheyWereFilled

LEMMA DialogNext == DialogInv /\ [Next]_vars => DialogInv'
<1> SUFFICES ASSUME DialogInv, [Next]_vars PROVE DialogInv'
  OBVIOUS
<1>1. ASSUME wrote' = NoWrite, dialog'.kind # "none" => dialog'.tab = activeTab'
      PROVE  DialogInv'
  BY <1>1 DEF DialogInv, EditsGoWhereTheyWereFilled, NoWrite
<1>2. ASSUME wrote' = wrote, dialog' = Closed PROVE DialogInv'
  BY <1>2 DEF DialogInv, EditsGoWhereTheyWereFilled, Closed
<1>3. ASSUME UNCHANGED console PROVE DialogInv'
  BY <1>3 DEF console, DialogInv, EditsGoWhereTheyWereFilled
<1>4. ASSUME UNCHANGED <<activeTab, dialog, wrote>> PROVE DialogInv'
  BY <1>4 DEF DialogInv, EditsGoWhereTheyWereFilled
<1>5. ASSUME NEW kind, NEW id, Sent(kind, id), kind = dialog.kind, dialog.kind # "none",
             kind = "edit" => id = dialog.id, dialog' = Closed
      PROVE  DialogInv'
  BY <1>5 DEF Sent, DialogInv, EditsGoWhereTheyWereFilled, Closed
<1>6. ASSUME NEW t \in Tabs, SwitchTab(t) PROVE DialogInv'
  BY <1>1, <1>6 DEF SwitchTab, Closed
<1>7. ASSUME NEW kind, Open(kind) PROVE DialogInv'
  BY <1>1, <1>7 DEF Open
<1>8. ASSUME Cancel PROVE DialogInv'
  BY <1>1, <1>8 DEF Cancel, Closed
<1>9. ASSUME NEW s \in Slots, Refresh(s) PROVE DialogInv'
  BY <1>1, <1>9 DEF Refresh, Closed
<1>10. ASSUME NEW s \in Slots, SubmitCreate(s) PROVE DialogInv'
  BY <1>2, <1>10 DEF SubmitCreate
<1>11. ASSUME NEW s \in Slots, SubmitEdit(s) PROVE DialogInv'
  BY <1>5, <1>11 DEF SubmitEdit
<1>12. ASSUME NEW s \in Slots, Confirm(s) PROVE DialogInv'
  <2>1. CASE SelectedId = NoId
    BY <1>2, <1>12, <2>1 DEF Confirm
  <2>2. CASE SelectedId # NoId
    BY <1>5, <1>12, <2>2 DEF Confirm
  <2> QED
    BY <2>1, <2>2
<1>13. ASSUME NEW s \in Slots, Read(s) \/ ReadFails(s) PROVE DialogInv'
  BY <1>3, <1>13 DEF Read, ReadFails
<1>14. ASSUME NEW s \in Slots, Deliver(s) PROVE DialogInv'
  BY <1>4, <1>14 DEF Deliver
<1>15. ASSUME NEW t \in Tabs, NEW id \in Ids[t],
              OthersCreate(t, id) \/ OthersToggle(t, id) \/ OthersDelete(t, id)
       PROVE  DialogInv'
  BY <1>3, <1>15 DEF OthersCreate, OthersToggle, OthersDelete
<1>16. CASE UNCHANGED vars
  BY <1>4, <1>16 DEF vars, console
<1> QED
  BY <1>6, <1>7, <1>8, <1>9, <1>10, <1>11, <1>12, <1>13, <1>14, <1>15, <1>16 DEF Next

\* An edit goes to the record its form was filled from, whatever arrives while it is open.
THEOREM EditsAreForTheFilledRecord == Spec => []EditsGoWhereTheyWereFilled
<1>1. Init => DialogInv
  BY DEF Init, Closed, NoWrite, DialogInv, EditsGoWhereTheyWereFilled
<1>2. DialogInv => EditsGoWhereTheyWereFilled
  BY DEF DialogInv
<1> QED
  BY <1>1, <1>2, DialogNext, PTL DEF Spec

-----------------------------------------------------------------------------

AllIds == UNION {Ids[t] : t \in Tabs}

\* The lists of records that were given out, each at most once.
Known(t) == {list \in Lists(t) : /\ list \in Seq(Rows(t))
                                 /\ \A i \in DOMAIN list : list[i].id \in issued[t]}

\* What a GET may bring for screen t, and for any screen.
Answers(t) == {NoList} \cup {List(list) : list \in Known(t)}
AnyAnswer == {NoList} \cup UNION {{List(list) : list \in Lists(t)} : t \in Tabs}
Fetching == [busy : BOOLEAN, got : Seq(AnyAnswer)]

StoresInv ==
  /\ server \in [Tabs -> Records] /\ issued \in [Tabs -> SUBSET AllIds]
  /\ \A t \in Tabs : DOMAIN server[t] \subseteq issued[t] /\ issued[t] \subseteq Ids[t]

ScreenInv == activeTab \in Tabs /\ \A t \in Tabs : rows[t] \in Known(t)

\* An edit form was filled from a record that was given out.
FormInv ==
  /\ dialog.kind \in {"none", "create", "edit", "delete", "toggle"}
  /\ dialog.kind = "edit" => dialog.id \in issued[activeTab]

FetchInv ==
  \A s \in Slots :
    /\ fetching[s] \in Fetching
    /\ Len(fetching[s].got) <= Len(TabOrder)
    /\ \A n \in 1..Len(fetching[s].got) : fetching[s].got[n] \in Answers(TabOrder[n])

ConsoleInv ==
  /\ fetching = [s \in Slots |-> fetching[s]]
  /\ StoresInv /\ ScreenInv /\ FormInv /\ FetchInv

-----------------------------------------------------------------------------

\* Ids are never taken back, so a list that was known remains so.
MoreIssued == \A t \in Tabs : issued[t] \subseteq issued'[t]

LEMMA KnownRemains ==
  ASSUME MoreIssued, NEW t \in Tabs
  PROVE  (\A list \in Known(t) : list \in Known(t)') /\ \A a \in Answers(t) : a \in Answers(t)'
<1>1. \A list \in Known(t) : list \in Known(t)'
  BY DEF Known, MoreIssued, Lists, Rows
<1> QED
  BY <1>1 DEF Answers

\* A screen's place in the order of the requests.
LEMMA PlaceOf ==
  ASSUME NEW t \in Tabs
  PROVE  LET n == CHOOSE k \in DOMAIN TabOrder : TabOrder[k] = t
         IN  n \in 1..Len(TabOrder) /\ TabOrder[n] = t
<1>1. DOMAIN TabOrder = 1..Len(TabOrder)
  BY ConsoleAssumption
<1>2. \E k \in DOMAIN TabOrder : TabOrder[k] = t
  BY DEF Tabs, Range
<1> QED
  BY <1>1, <1>2

LEMMA OrderIsOfTabs == ASSUME NEW n \in 1..Len(TabOrder) PROVE TabOrder[n] \in Tabs
<1>1. DOMAIN TabOrder = 1..Len(TabOrder)
  BY ConsoleAssumption
<1> QED
  BY <1>1 DEF Tabs, Range

\* The API answers with lists of records that were given out.
LEMMA ListingsAreKnown ==
  ASSUME StoresInv, NEW t \in Tabs, NEW list \in Listings(t)
  PROVE  list \in Known(t)
<1> DEFINE all == {Row(id, server[t][id]) : id \in DOMAIN server[t]}
           f == [id \in DOMAIN server[t] |-> Row(id, server[t][id])]
<1>1. /\ DOMAIN server[t] \subseteq Ids[t] /\ DOMAIN server[t] \subseteq issued[t]
      /\ server[t] \in [DOMAIN server[t] -> BOOLEAN]
  BY DEF StoresInv, Records
<1>2. all \in SUBSET Rows(t) /\ \A row \in all : row.id \in issued[t]
  BY <1>1 DEF Row, Rows
<1>3. IsFiniteSet(DOMAIN server[t])
  BY <1>1, ConsoleAssumption, FS_Subset
<1>4. f \in Surjection(DOMAIN server[t], all)
  BY DEF Surjection
<1>5. Cardinality(all) \in Nat
  BY <1>3, <1>4, FS_Surjection, FS_CardinalityType
<1>6. list \in SetToSeqs(all)
  BY DEF Listings
<1>7. list \in [1..Cardinality(all) -> all]
  BY <1>6 DEF SetToSeqs
<1> HIDE DEF all, f
<1>8. list \in Lists(t)
  BY <1>2, <1>6 DEF Lists, SetToAllKPermutations
<1>9. list \in Seq(Rows(t)) /\ \A i \in DOMAIN list : list[i].id \in issued[t]
  BY <1>2, <1>5, <1>7
<1> QED
  BY <1>8, <1>9 DEF Known

LEMMA NothingIsKnown == ASSUME NEW t PROVE <<>> \in Known(t)
<1>1. <<>> \in [1..0 -> {}] /\ 1..0 = {}
  OBVIOUS
<1>2. <<>> \in SetToSeqs({})
  BY <1>1, FS_EmptySet DEF SetToSeqs
<1>3. {} \in SUBSET Rows(t)
  OBVIOUS
<1> QED
  BY <1>2, <1>3 DEF Known, Lists, SetToAllKPermutations

\* The selected row is one of the list: it has a switch, and an id that was given out.
LEMMA SelectedIsListed ==
  ASSUME ScreenInv, StoresInv, SelectedId # NoId
  PROVE  /\ SelectedId \in issued[activeTab] /\ SelectedId \in Ids[activeTab]
         /\ Head(rows[activeTab]).on \in BOOLEAN
<1> DEFINE list == rows[activeTab]
<1>1. list \in Seq(Rows(activeTab)) /\ \A i \in DOMAIN list : list[i].id \in issued[activeTab]
  BY DEF ScreenInv, Known
<1>2. list # <<>> /\ SelectedId = Head(list).id
  BY DEF SelectedId
<1>3. 1 \in DOMAIN list /\ Head(list) = list[1] /\ list[1] \in Rows(activeTab)
  BY <1>1, <1>2
<1> QED
  BY <1>1, <1>2, <1>3 DEF Rows

-----------------------------------------------------------------------------

\* A record is put, under an id that was given out or is now.
LEMMA PutKeeps ==
  ASSUME StoresInv, NEW t \in Tabs, NEW id \in Ids[t], NEW on \in BOOLEAN,
         server' = With(t, id, on),
         \/ issued' = issued /\ id \in issued[t]
         \/ issued' = [issued EXCEPT ![t] = @ \cup {id}]
  PROVE  StoresInv' /\ MoreIssued
<1> DEFINE f == [i \in DOMAIN server[t] \cup {id} |-> IF i = id THEN on ELSE server[t][i]]
<1>1. /\ server \in [Tabs -> Records] /\ server[t] \in [DOMAIN server[t] -> BOOLEAN]
      /\ DOMAIN server[t] \subseteq AllIds /\ id \in AllIds
  BY DEF StoresInv, Records, AllIds
<1>2. f \in [DOMAIN server[t] \cup {id} -> BOOLEAN] /\ DOMAIN f = DOMAIN server[t] \cup {id}
  BY <1>1
<1>3. DOMAIN server[t] \cup {id} \in SUBSET AllIds
  BY <1>1
<1>4. f \in Records
  BY <1>2, <1>3 DEF Records, AllIds
<1>5. server' = [server EXCEPT ![t] = f]
  BY DEF With
<1> HIDE DEF f
<1>6. server' \in [Tabs -> Records] /\ server'[t] = f /\ \A u \in Tabs \ {t} : server'[u] = server[u]
  BY <1>1, <1>4, <1>5
<1>7. /\ issued' \in [Tabs -> SUBSET AllIds] /\ MoreIssued
      /\ \A u \in Tabs : issued'[u] \subseteq Ids[u]
      /\ id \in issued'[t]
  BY <1>1 DEF StoresInv, MoreIssued
<1>8. \A u \in Tabs : DOMAIN server'[u] \subseteq issued'[u]
  BY <1>2, <1>6, <1>7 DEF StoresInv, MoreIssued
<1> QED
  BY <1>6, <1>7, <1>8 DEF StoresInv

LEMMA DeleteKeeps ==
  ASSUME StoresInv, NEW t \in Tabs, NEW id, server' = Without(t, id), UNCHANGED issued
  PROVE  StoresInv' /\ MoreIssued
<1> DEFINE f == [i \in DOMAIN server[t] \ {id} |-> server[t][i]]
<1>1. /\ server \in [Tabs -> Records] /\ server[t] \in [DOMAIN server[t] -> BOOLEAN]
      /\ DOMAIN server[t] \subseteq AllIds
  BY DEF StoresInv, Records, AllIds
<1>2. f \in [DOMAIN server[t] \ {id} -> BOOLEAN] /\ DOMAIN f = DOMAIN server[t] \ {id}
  BY <1>1
<1>3. DOMAIN server[t] \ {id} \in SUBSET AllIds
  BY <1>1
<1>4. f \in Records
  BY <1>2, <1>3 DEF Records, AllIds
<1>5. server' = [server EXCEPT ![t] = f]
  BY DEF Without
<1> HIDE DEF f
<1>6. server' \in [Tabs -> Records] /\ server'[t] = f /\ \A u \in Tabs \ {t} : server'[u] = server[u]
  BY <1>1, <1>4, <1>5
<1> QED
  BY <1>2, <1>6 DEF StoresInv, MoreIssued

LEMMA StoresStay ==
  ASSUME StoresInv, UNCHANGED <<server, issued>>
  PROVE  StoresInv' /\ MoreIssued
  BY DEF StoresInv, MoreIssued

\* The screen and the fetches under way, while records come and go.
LEMMA ScreenStays ==
  ASSUME StoresInv, ScreenInv, MoreIssued, activeTab' \in Tabs, UNCHANGED rows
  PROVE  ScreenInv'
  BY KnownRemains DEF ScreenInv

LEMMA FetchesStay ==
  ASSUME FetchInv, MoreIssued, UNCHANGED fetching
  PROVE  FetchInv'
<1>1. Fetching' = Fetching
  BY DEF Fetching, AnyAnswer, Lists, Rows
<1>2. ASSUME NEW s \in Slots, NEW n \in 1..Len(fetching[s].got)
      PROVE  fetching[s].got[n] \in Answers(TabOrder[n])'
  <2>0. Len(fetching[s].got) \in Nat /\ Len(fetching[s].got) <= Len(TabOrder)
    BY DEF FetchInv, Fetching
  <2>1. n \in 1..Len(TabOrder)
    BY <2>0, ConsoleAssumption
  <2>2. TabOrder[n] \in Tabs /\ fetching[s].got[n] \in Answers(TabOrder[n])
    BY <2>1, OrderIsOfTabs DEF FetchInv
  <2> QED
    BY <2>2, KnownRemains
<1> QED
  BY <1>1, <1>2 DEF FetchInv

LEMMA FetchStarts ==
  ASSUME ConsoleInv, MoreIssued, NEW s \in Slots, Fetch(s)
  PROVE  FetchInv' /\ fetching' = [r \in Slots |-> fetching'[r]]
<1> DEFINE h == [busy |-> TRUE, got |-> <<>>]
<1>1. fetching' = [fetching EXCEPT ![s] = h] /\ fetching = [r \in Slots |-> fetching[r]]
  BY DEF Fetch, ConsoleInv
<1>2. fetching'[s] = h /\ \A r \in Slots \ {s} : fetching'[r] = fetching[r]
  BY <1>1
<1>3. Fetching' = Fetching
  BY DEF Fetching, AnyAnswer, Lists, Rows
<1>4. ASSUME NEW r \in Slots \ {s}, NEW n \in 1..Len(fetching[r].got)
      PROVE  fetching[r].got[n] \in Answers(TabOrder[n])'
  <2>0. Len(fetching[r].got) \in Nat /\ Len(fetching[r].got) <= Len(TabOrder)
    BY DEF ConsoleInv, FetchInv, Fetching
  <2>1. n \in 1..Len(TabOrder)
    BY <2>0, ConsoleAssumption
  <2>2. TabOrder[n] \in Tabs /\ fetching[r].got[n] \in Answers(TabOrder[n])
    BY <2>1, OrderIsOfTabs DEF ConsoleInv, FetchInv
  <2> QED
    BY <2>2, KnownRemains
<1>5. /\ h \in Fetching /\ Len(h.got) <= Len(TabOrder)
      /\ \A n \in 1..Len(h.got) : h.got[n] \in Answers(TabOrder[n])'
  BY ConsoleAssumption DEF Fetching
<1> HIDE DEF h
<1>6. FetchInv'
  <2> SUFFICES ASSUME NEW r \in Slots
               PROVE  /\ fetching'[r] \in Fetching
                      /\ Len(fetching'[r].got) <= Len(TabOrder)
                      /\ \A n \in 1..Len(fetching'[r].got) :
                            fetching'[r].got[n] \in Answers(TabOrder[n])'
    BY <1>3 DEF FetchInv
  <2>1. CASE r = s
    BY <1>2, <1>5, <2>1
  <2>2. CASE r # s
    BY <1>2, <1>4, <2>2 DEF FetchInv, ConsoleInv
  <2> QED
    BY <2>1, <2>2
<1> QED
  BY <1>1, <1>6

\* One more GET is answered, or fails.
LEMMA ReadKeeps ==
  ASSUME ConsoleInv, NEW s \in Slots, Read(s) \/ ReadFails(s)
  PROVE  ConsoleInv'
<1> DEFINE q == fetching[s].got
           place == Len(q) + 1
<1>1. /\ fetching[s] \in Fetching
      /\ q \in Seq(AnyAnswer) /\ Len(q) \in Nat /\ Len(q) < Len(TabOrder)
  BY DEF ConsoleInv, FetchInv, Fetching, Read, ReadFails, Reading
<1>2. place \in 1..Len(TabOrder)
  BY <1>1, ConsoleAssumption
<1>3. TabOrder[place] \in Tabs
  BY <1>2, OrderIsOfTabs
<1>4. PICK a \in Answers(TabOrder[place]) : Got(s, a)
  <2>1. CASE Read(s)
    <3>1. PICK list \in Listings(TabOrder[place]) : Got(s, List(list))
      BY <2>1 DEF Read
    <3>2. list \in Known(TabOrder[place])
      BY <1>3, ListingsAreKnown DEF ConsoleInv
    <3> QED
      BY <3>1, <3>2 DEF Answers
  <2>2. CASE ReadFails(s)
    BY <2>2 DEF ReadFails, Answers
  <2> QED
    BY <2>1, <2>2
<1>5. a \in AnyAnswer
  BY <1>3 DEF Answers, AnyAnswer, Known
<1> DEFINE g == Append(q, a)
<1>6. /\ g \in Seq(AnyAnswer) /\ Len(g) = place /\ g[place] = a
      /\ \A n \in 1..Len(q) : g[n] = q[n]
  BY <1>1, <1>5
<1>7. UNCHANGED <<server, issued, activeTab, rows, dialog>>
  BY DEF Read, ReadFails, console
<1>8. (\A t : Answers(t)' = Answers(t)) /\ Fetching' = Fetching
  BY <1>7 DEF Answers, Fetching, AnyAnswer, Known, Lists, Rows
<1>9. fetching' = [fetching EXCEPT ![s].got = g] /\ fetching = [r \in Slots |-> fetching[r]]
  BY <1>4 DEF Got, ConsoleInv
<1>10. fetching' = [r \in Slots |-> fetching'[r]] /\ \A r \in Slots \ {s} : fetching'[r] = fetching[r]
  BY <1>9
<1>11. fetching'[s].got = g /\ fetching'[s] \in Fetching
  BY <1>1, <1>6, <1>9 DEF Fetching
<1> HIDE DEF g, q
<1>12. FetchInv'
  <2> SUFFICES ASSUME NEW r \in Slots
               PROVE  /\ fetching'[r] \in Fetching
                      /\ Len(fetching'[r].got) <= Len(TabOrder)
                      /\ \A n \in 1..Len(fetching'[r].got) :
                            fetching'[r].got[n] \in Answers(TabOrder[n])
    BY <1>8 DEF FetchInv
  <2>1. CASE r = s
    <3>1. ASSUME NEW n \in 1..place PROVE g[n] \in Answers(TabOrder[n])
      BY <1>1, <1>4, <1>6 DEF ConsoleInv, FetchInv, q
    <3> QED
      BY <1>2, <1>6, <1>11, <2>1, <3>1
  <2>2. CASE r # s
    BY <1>10, <2>2 DEF FetchInv, ConsoleInv
  <2> QED
    BY <2>1, <2>2
<1>13. StoresInv' /\ ScreenInv' /\ FormInv'
  BY <1>7, StoresStay, ScreenStays DEF ConsoleInv, FormInv, ScreenInv
<1> QED
  BY <1>10, <1>12, <1>13 DEF ConsoleInv

\* The lists that were read replace those on the screen.
LEMMA DeliverKeeps == ASSUME ConsoleInv, NEW s \in Slots, Deliver(s) PROVE ConsoleInv'
<1>1. UNCHANGED <<server, issued, activeTab, dialog>>
  BY DEF Deliver
<1>2. (\A t : Known(t)' = Known(t) /\ Answers(t)' = Answers(t)) /\ Fetching' = Fetching
  BY <1>1 DEF Answers, Fetching, AnyAnswer, Known, Lists, Rows
<1>3. Len(fetching[s].got) = Len(TabOrder)
  BY ConsoleAssumption DEF Deliver, Reading, ConsoleInv, FetchInv, Fetching
<1>4. ASSUME NEW t \in Tabs PROVE Brought(s, t) \in Answers(t)
  BY <1>3, PlaceOf DEF Brought, ConsoleInv, FetchInv
<1>5. ASSUME NEW t \in Tabs PROVE rows'[t] \in Known(t)
  <2>1. CASE Brought(s, t) = NoList
    BY <1>5, <2>1 DEF Deliver, ConsoleInv, ScreenInv
  <2>2. CASE Brought(s, t) # NoList
    <3>1. PICK list \in Known(t) : Brought(s, t) = {list}
      BY <1>4, <2>2 DEF Answers, List
    <3>2. Only(Brought(s, t)) = list
      BY <3>1 DEF Only
    <3> QED
      BY <2>2, <3>2 DEF Deliver
  <2> QED
    BY <2>1, <2>2
<1>6. ScreenInv'
  BY <1>1, <1>2, <1>5 DEF ScreenInv, ConsoleInv
<1>7. fetching' = [fetching EXCEPT ![s] = Idle] /\ fetching = [r \in Slots |-> fetching[r]]
  BY DEF Deliver, ConsoleInv
<1>8. /\ fetching' = [r \in Slots |-> fetching'[r]] /\ fetching'[s] = Idle
      /\ \A r \in Slots \ {s} : fetching'[r] = fetching[r]
  BY <1>7
<1>9. Idle \in Fetching /\ Len(Idle.got) = 0 /\ 0 <= Len(TabOrder)
  BY ConsoleAssumption DEF Idle, Fetching
<1>10. FetchInv'
  <2> SUFFICES ASSUME NEW r \in Slots
               PROVE  /\ fetching'[r] \in Fetching
                      /\ Len(fetching'[r].got) <= Len(TabOrder)
                      /\ \A n \in 1..Len(fetching'[r].got) :
                            fetching'[r].got[n] \in Answers(TabOrder[n])
    BY <1>2 DEF FetchInv
  <2>1. CASE r = s
    BY <1>8, <1>9, <2>1
  <2>2. CASE r # s
    BY <1>8, <2>2 DEF FetchInv, ConsoleInv
  <2> QED
    BY <2>1, <2>2
<1>11. StoresInv' /\ FormInv'
  BY <1>1, StoresStay DEF ConsoleInv, FormInv
<1> QED
  BY <1>6, <1>8, <1>10, <1>11 DEF ConsoleInv

\* A write: the records may change, the dialog closes and the lists are fetched again.
LEMMA WriteKeeps ==
  ASSUME ConsoleInv, NEW s \in Slots, StoresInv', MoreIssued, dialog' = Closed, Fetch(s),
         UNCHANGED <<activeTab, rows>>
  PROVE  ConsoleInv'
<1>1. ScreenInv'
  BY ScreenStays DEF ConsoleInv, ScreenInv
<1>2. FormInv'
  BY DEF FormInv, Closed
<1> QED
  BY <1>1, <1>2, FetchStarts DEF ConsoleInv

\* The records change, and nothing else.
LEMMA OthersKeep ==
  ASSUME ConsoleInv, StoresInv', MoreIssued, UNCHANGED <<console, fetching>>
  PROVE  ConsoleInv'
<1>1. ScreenInv'
  BY ScreenStays DEF ConsoleInv, ScreenInv, console
<1>2. FormInv'
  BY DEF FormInv, ConsoleInv, ScreenInv, MoreIssued, console
<1> QED
  BY <1>1, <1>2, FetchesStay DEF ConsoleInv

LEMMA ConsoleNext == ConsoleInv /\ [Next]_vars => ConsoleInv'
<1> SUFFICES ASSUME ConsoleInv, [Next]_vars PROVE ConsoleInv'
  OBVIOUS
<1>0. StoresInv /\ ScreenInv /\ FormInv /\ FetchInv /\ activeTab \in Tabs
  BY DEF ConsoleInv, ScreenInv
<1>1. ASSUME UNCHANGED <<server, issued, rows, fetching>>, activeTab' \in Tabs, FormInv'
      PROVE  ConsoleInv'
  BY <1>0, <1>1, StoresStay, ScreenStays, FetchesStay DEF ConsoleInv
<1>2. ASSUME NEW t \in Tabs, SwitchTab(t) PROVE ConsoleInv'
  BY <1>1, <1>2 DEF SwitchTab, Closed, FormInv
<1>3. ASSUME NEW kind \in {"create", "edit", "delete", "toggle"}, Open(kind) PROVE ConsoleInv'
  <2>1. dialog'.kind = kind /\ dialog'.id = SelectedId /\ UNCHANGED <<issued, activeTab>>
    BY <1>3 DEF Open
  <2>2. kind = "edit" => SelectedId \in issued[activeTab]
    BY <1>0, <1>3, SelectedIsListed DEF Open
  <2>3. FormInv'
    BY <2>1, <2>2 DEF FormInv
  <2> QED
    BY <1>0, <1>1, <1>3, <2>3 DEF Open
<1>4. ASSUME Cancel PROVE ConsoleInv'
  BY <1>0, <1>1, <1>4 DEF Cancel, Closed, FormInv
<1>5. ASSUME NEW s \in Slots, Refresh(s) PROVE ConsoleInv'
  <2>1. dialog' = Closed
    BY <1>5 DEF Refresh
  <2> QED
    BY <1>0, <1>5, <2>1, StoresStay, WriteKeeps DEF Refresh
<1>6. ASSUME NEW s \in Slots, SubmitCreate(s) PROVE ConsoleInv'
  <2>1. StoresInv' /\ MoreIssued
    <3>1. CASE UNCHANGED <<server, issued>>
      BY <1>0, <3>1, StoresStay
    <3>2. CASE \E id \in Ids[activeTab] :
                 /\ server' = With(activeTab, id, TRUE)
                 /\ issued' = [issued EXCEPT ![activeTab] = @ \cup {id}]
      BY <1>0, <3>2, PutKeeps
    <3> QED
      BY <1>6, <3>1, <3>2 DEF SubmitCreate
  <2> QED
    BY <1>6, <2>1, WriteKeeps DEF SubmitCreate
<1>7. ASSUME NEW s \in Slots, SubmitEdit(s) PROVE ConsoleInv'
  <2>1. dialog.id \in issued[activeTab] /\ dialog.id \in Ids[activeTab] /\ UNCHANGED issued
    BY <1>0, <1>7 DEF SubmitEdit, FormInv, StoresInv
  <2>2. StoresInv' /\ MoreIssued
    <3>1. CASE UNCHANGED server
      BY <1>0, <2>1, <3>1, StoresStay
    <3>2. CASE server' = With(activeTab, dialog.id, TRUE)
      BY <1>0, <2>1, <3>2, PutKeeps
    <3> QED
      BY <1>7, <3>1, <3>2 DEF SubmitEdit
  <2> QED
    BY <1>7, <2>2, WriteKeeps DEF SubmitEdit
<1>8. ASSUME NEW s \in Slots, Confirm(s) PROVE ConsoleInv'
  <2>1. StoresInv' /\ MoreIssued
    <3>1. CASE UNCHANGED server
      BY <1>0, <1>8, <3>1, StoresStay DEF Confirm
    <3>2. CASE SelectedId # NoId /\ server' = Without(activeTab, SelectedId)
      BY <1>0, <1>8, <3>2, DeleteKeeps DEF Confirm
    <3>3. CASE SelectedId # NoId /\ server' = With(activeTab, SelectedId, ~Head(rows[activeTab]).on)
      <4>1. /\ SelectedId \in issued[activeTab] /\ SelectedId \in Ids[activeTab]
            /\ (~Head(rows[activeTab]).on) \in BOOLEAN
        BY <1>0, <3>3, SelectedIsListed
      <4> QED
        BY <1>0, <1>8, <3>3, <4>1, PutKeeps DEF Confirm
    <3> QED
      BY <1>8, <3>1, <3>2, <3>3 DEF Confirm
  <2> QED
    BY <1>8, <2>1, WriteKeeps DEF Confirm
<1>9. ASSUME NEW t \in Tabs, NEW id \in Ids[t], OthersCreate(t, id) PROVE ConsoleInv'
  <2>1. StoresInv' /\ MoreIssued
    BY <1>0, <1>9, PutKeeps DEF OthersCreate
  <2> QED
    BY <1>9, <2>1, OthersKeep DEF OthersCreate
<1>10. ASSUME NEW t \in Tabs, NEW id \in Ids[t], OthersToggle(t, id) PROVE ConsoleInv'
  <2>1. server[t][id] \in BOOLEAN /\ id \in issued[t] /\ issued' = issued
    BY <1>0, <1>10 DEF OthersToggle, StoresInv, Records
  <2>2. (~server[t][id]) \in BOOLEAN
    BY <2>1
  <2>3. StoresInv' /\ MoreIssued
    BY <1>0, <1>10, <2>1, <2>2, PutKeeps DEF OthersToggle
  <2> QED
    BY <1>10, <2>3, OthersKeep DEF OthersToggle
<1>11. ASSUME NEW t \in Tabs, NEW id \in Ids[t], OthersDelete(t, id) PROVE ConsoleInv'
  <2>1. StoresInv' /\ MoreIssued
    BY <1>0, <1>11, DeleteKeeps DEF OthersDelete
  <2> QED
    BY <1>11, <2>1, OthersKeep DEF OthersDelete
<1>12. CASE UNCHANGED vars
  <2>1. StoresInv' /\ MoreIssued /\ UNCHANGED <<console, fetching>>
    BY <1>0, <1>12, StoresStay DEF vars, console
  <2> QED
    BY <2>1, OthersKeep
<1> QED
  BY <1>2, <1>3, <1>4, <1>5, <1>6, <1>7, <1>8, <1>9, <1>10, <1>11, <1>12,
     ReadKeeps, DeliverKeeps DEF Next

LEMMA ConsoleInit == Init => ConsoleInv
<1> SUFFICES ASSUME Init PROVE ConsoleInv
  OBVIOUS
<1>1. StoresInv
  <2>1. /\ server \in [Tabs -> Records] /\ issued = [t \in Tabs |-> DOMAIN server[t]]
        /\ \A t \in Tabs : DOMAIN server[t] \subseteq Ids[t]
    BY DEF Init
  <2>2. issued \in [Tabs -> SUBSET AllIds]
    BY <2>1 DEF AllIds
  <2> QED
    BY <2>1, <2>2 DEF StoresInv
<1>2. ScreenInv
  BY NothingIsKnown DEF Init, ScreenInv
<1>3. FormInv
  BY DEF Init, FormInv, Closed
<1>4. \A s \in Slots : fetching[s] \in Fetching /\ Len(fetching[s].got) = 0
  <2>1. \A b \in BOOLEAN : [busy |-> b, got |-> <<>>] \in Fetching
    BY DEF Fetching
  <2> SUFFICES ASSUME NEW s \in Slots
               PROVE  fetching[s] \in Fetching /\ Len(fetching[s].got) = 0
    OBVIOUS
  <2>2. PICK b \in BOOLEAN : fetching[s] = [busy |-> b, got |-> <<>>]
    BY DEF Init, Idle
  <2>3. fetching[s] \in Fetching /\ fetching[s].got = <<>>
    BY <2>1, <2>2
  <2> QED
    BY <2>3
<1>5. FetchInv
  BY <1>4, ConsoleAssumption DEF FetchInv
<1>6. fetching = [s \in Slots |-> fetching[s]]
  BY DEF Init
<1> QED
  BY <1>1, <1>2, <1>3, <1>5, <1>6 DEF ConsoleInv

\* Every list shown is one the API can answer with, and no record has an id that was not
\* given out.
THEOREM TypeCorrect == Spec => []TypeOK
<1>1. ConsoleInv => TypeOK
  <2> SUFFICES ASSUME ConsoleInv PROVE TypeOK
    OBVIOUS
  <2>1. ASSUME NEW t \in Tabs
        PROVE  /\ DOMAIN server[t] \subseteq issued[t] /\ issued[t] \subseteq Ids[t]
               /\ Range(server[t]) \subseteq BOOLEAN /\ rows[t] \in Lists(t)
    BY DEF ConsoleInv, StoresInv, ScreenInv, Records, Known, Range
  <2>2. \A s \in Slots : Len(fetching[s].got) <= Len(TabOrder)
    BY DEF ConsoleInv, FetchInv
  <2> QED
    BY <2>1, <2>2 DEF TypeOK, ConsoleInv, ScreenInv, FormInv
<1> QED
  BY <1>1, ConsoleInit, ConsoleNext, PTL DEF Spec
=============================================================================
