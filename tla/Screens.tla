------------------------------ MODULE Screens ------------------------------
(***************************************************************************)
(* The list screens of the frontend: rows loaded for a view (a filter and  *)
(* a page), dialogs and row buttons that write, and the reload that        *)
(* follows a write.  No load cancels another and no answer is compared     *)
(* with what is asked for now; every handler closes over the view it was   *)
(* created with.  Three screens then ask for a count per row, and leave a  *)
(* row blank whose count cannot be had.  Left out: the banners and chips   *)
(* that are loaded beside the rows.                                        *)
(***************************************************************************)
EXTENDS BackOffice

CONSTANTS
  Task,      \* handler calls under way at one time
  MaxRows    \* bound: versions of the rows

VARIABLES
  screen,    \* the screen open, its view, what it shows, whether an error is up
  task,      \* per handler call: what it awaits
  rows,      \* the server's version of the rows and of what is counted of them
  memory     \* history: see Memory

screenVars == <<screen, task, rows, memory>>

-----------------------------------------------------------------------------
\* What each screen does, by the api client's names.
\*   by: how a changed filter is loaded    writes: its row buttons and dialogs
\*   reloads: the writes it reloads after  alone: those that cannot overlap themselves
\*   first: those that go back to page 1   wipes: those that clear the screen's error
\*   counted: rows have counts             dialog: opening a dialog clears the error

PostDialogs == {"publishPost", "resolvePosted", "addManualMetric", "anchorProducts"}
PostsScreen == [by |-> "handler", pages |-> {1}, writes |-> PostDialogs \cup {"resolveNotPosted"},
                reloads |-> {"publishPost", "resolvePosted", "anchorProducts", "resolveNotPosted"},
                alone |-> PostDialogs,
                wipes |-> {"resolveNotPosted"}, first |-> {}, dialog |-> FALSE,
                counted |-> TRUE]

ContentScreen == [by |-> "handler", pages |-> {1}, writes |-> {"archiveContent"},
                  reloads |-> {"archiveContent"}, alone |-> {},
                  wipes |-> {"archiveContent"}, first |-> {}, dialog |-> FALSE,
                  counted |-> FALSE]

ReplyDialog == {"replyComment"}
CommentsScreen == [by |-> "handler", pages |-> {1, 2},
                   writes |-> ReplyDialog \cup {"syncComments", "eraseComment"},
                   reloads |-> ReplyDialog \cup {"syncComments", "eraseComment"},
                   alone |-> ReplyDialog \cup {"syncComments"},
                   wipes |-> {"syncComments"}, first |-> {"syncComments"}, dialog |-> FALSE,
                   counted |-> FALSE]

CampaignDialog == {"savePaidCampaign"}
PerformanceDialog == {"createPerformanceEntry"}
PaidScreen == [by |-> "effect", pages |-> {1},
               writes |-> CampaignDialog \cup PerformanceDialog \cup {"retirePaidCampaign"},
               reloads |-> CampaignDialog \cup PerformanceDialog \cup {"retirePaidCampaign"},
               alone |-> CampaignDialog \cup PerformanceDialog,
               wipes |-> {"retirePaidCampaign"}, first |-> {}, dialog |-> FALSE,
               counted |-> FALSE]

ProductDialog == {"saveCommerceProduct"}
LinksDialog == {"createAffiliateLink"}
ProductsScreen == [by |-> "effect", pages |-> {1},
                   writes |-> ProductDialog \cup LinksDialog
                              \cup {"retireAffiliateLink", "retireCommerceProduct"},
                   reloads |-> ProductDialog \cup LinksDialog
                               \cup {"retireAffiliateLink", "retireCommerceProduct"},
                   alone |-> ProductDialog \cup LinksDialog,
                   wipes |-> {"retireCommerceProduct"}, first |-> {}, dialog |-> FALSE,
                   counted |-> TRUE]

PlacementDialog == {"recordCommercePlacement", "anchorProducts"}
PlacementsScreen == [by |-> "effect", pages |-> {1}, writes |-> PlacementDialog,
                     reloads |-> PlacementDialog, alone |-> PlacementDialog,
                     wipes |-> {}, first |-> {}, dialog |-> FALSE,
                     counted |-> TRUE]

ConversionDialog == {"createCommerceConversion"}
ConversionsScreen == [by |-> "effect", pages |-> {1}, writes |-> ConversionDialog,
                      reloads |-> ConversionDialog, alone |-> ConversionDialog,
                      wipes |-> {}, first |-> {}, dialog |-> FALSE,
                      counted |-> FALSE]

PublishDialogs == {"createPost", "recordManualExternal"}
SchedulerScreen == [by |-> "none", pages |-> {1}, writes |-> PublishDialogs \cup {"rankContent"},
                    reloads |-> PublishDialogs \cup {"rankContent"}, alone |-> PublishDialogs,
                    wipes |-> {"rankContent"}, first |-> {}, dialog |-> TRUE,
                    counted |-> FALSE]

DashboardScreen == [by |-> "none", pages |-> {1}, writes |-> {"syncMetrics"},
                    reloads |-> {"syncMetrics"}, alone |-> {"syncMetrics"},
                    wipes |-> {"syncMetrics"}, first |-> {}, dialog |-> FALSE,
                    counted |-> FALSE]

SettingsScreen == [by |-> "none", pages |-> {1}, writes |-> {"disconnectAccount"},
                   reloads |-> {"disconnectAccount"}, alone |-> {},
                   wipes |-> {"disconnectAccount"}, first |-> {}, dialog |-> FALSE,
                   counted |-> FALSE]

\* A reading is shown by the dashboard only.
RowsUnchanged == {"addManualMetric"}

\* Every other write is made on a row that is shown.
NeedNoRow == {"savePaidCampaign", "saveCommerceProduct", "recordCommercePlacement",
              "createCommerceConversion", "syncComments", "syncMetrics"}

\* eraseComment is a row button, but leaves an older error.
FromDialog(w) == w \notin {"resolveNotPosted", "archiveContent", "syncComments", "eraseComment",
                           "retirePaidCampaign", "retireCommerceProduct", "rankContent",
                           "syncMetrics", "disconnectAccount"}

AllScreens == {PostsScreen, ContentScreen, CommentsScreen, PaidScreen, ProductsScreen,
               PlacementsScreen, ConversionsScreen, SchedulerScreen, DashboardScreen,
               SettingsScreen}

AnyView == [filter : {"all", "some"}, page : {1, 2}]

ASSUME ScreensAssumption ==
  /\ MaxRows \in Nat
  /\ \A s \in AllScreens : None \notin s.writes
  /\ None \notin [view : AnyView, version : 0..MaxRows]

-----------------------------------------------------------------------------
Filters(s) == IF s.by = "none" THEN {"all"} ELSE {"all", "some"}
Views(s) == [filter : Filters(s), page : s.pages]
FirstView == [filter |-> "all", page |-> 1]

Phase == {"session", "asked", "answered", "counting", "counted", "resetting", "sent", "applied"}

\* A load, from its request for the rows to its end.
LoadPhase == {"asked", "answered", "counting", "counted", "resetting"}

\* What the handlers have gone through.
\*   mine: the newest of the user's own writes that was acknowledged
\*   before: <<u, t>> if load u was asked before load t, both awaited still
\*   late: the loads overtaken by one asked later, which has shown rows or failed
\*   stale: the loads asked for another view than the one set, by a handler or
\*     an effect of an older render, or before the page was set back to 1
\*   astray: what was last shown by a late or a stale load, or has lost its error
Memory == [mine : 0..MaxRows, before : SUBSET (Task \X Task), late : SUBSET Task,
           stale : SUBSET Task, astray : SUBSET {"rows", "counts"}]

ScreenTypeOK ==
  /\ screen.kind \in AllScreens
  /\ screen.at \in {"closed", "loading", "open", "left"}
  /\ screen.view \in Views(screen.kind)
  /\ screen.shown = None \/ screen.shown \in [view : Views(screen.kind), version : 0..MaxRows]
  /\ screen.count \in 0..MaxRows \cup {None}
  /\ screen.error \in BOOLEAN /\ screen.token \in BOOLEAN
  /\ \A t \in Task : task[t] # Idle =>
       /\ task[t].pc \in Phase
       /\ task[t].view \in Views(screen.kind)
       /\ task[t].version \in 0..MaxRows \cup {None}
  /\ rows \in 0..MaxRows
  /\ memory \in Memory

Call(pc, view, write) == [pc |-> pc, view |-> view, write |-> write, version |-> 0]

\* A screen that is not mounted; `count` is the count beside some row, or blank.
Blank(s) == [kind |-> s, at |-> "closed", view |-> FirstView, shown |-> None, count |-> None,
             error |-> FALSE, token |-> FALSE]
NoMemory == [mine |-> 0, before |-> {}, late |-> {}, stale |-> {}, astray |-> {}]

ScreenInit ==
  /\ screen = Blank(PostsScreen)
  /\ task = [t \in Task |-> Idle]
  /\ rows = 0
  /\ memory = NoMemory

At(t, pc) == task[t] # Idle /\ task[t].pc = pc
Awaiting == \E t \in Task : task[t] # Idle
Goes(t, pc) == task' = [task EXCEPT ![t].pc = pc, ![t].version = 0]
Ends(t) == task' = [task EXCEPT ![t] = Idle]
Loading == {t \in Task : task[t] # Idle /\ task[t].pc \in LoadPhase}

-----------------------------------------------------------------------------
FirstPage(view) == [view EXCEPT !.page = 1]

\* The view that a load of write w is to show.
Wanted(w) == IF w \in screen.kind.first THEN FirstPage(screen.view) ELSE screen.view

\* Load t of write w asks for the rows of a view, which may not be the one set now.
Asked(m, t, w, view) ==
  [m EXCEPT !.before = @ \cup (Loading \X {t}),
            !.stale = IF view = Wanted(w) THEN @ ELSE @ \cup {t}]

\* Load t shows rows, or fails, before those asked earlier have.
Overtakes(m, t) == [m EXCEPT !.late = @ \cup {u \in Task : <<u, t>> \in m.before}]

Shown(m, t, part, wrong) ==
  [m EXCEPT !.astray = IF t \in wrong THEN @ \cup {part} ELSE @ \ {part}]

Forget(m, t) ==
  [m EXCEPT !.before = {p \in @ : t \notin {p[1], p[2]}}, !.late = @ \ {t}, !.stale = @ \ {t}]

\* Mounting calls loadInitial: who am I, the CSRF token, side lists, the rows.
ScreenOpens(s, t) ==
  /\ screen.at = "closed"
  /\ screen' = [screen EXCEPT !.at = "loading", !.kind = s]
  /\ task' = [task EXCEPT ![t] = Call("session", FirstView, None)]
  /\ UNCHANGED <<rows, memory>>

SessionAnswered(t) ==
  /\ At(t, "session")
  /\ Goes(t, "asked")
  /\ screen' = [screen EXCEPT !.token = TRUE]
  /\ memory' = Asked(memory, t, None, task[t].view)
  /\ UNCHANGED rows

RowsRead(t) ==
  /\ At(t, "asked")
  /\ task' = [task EXCEPT ![t].pc = "answered", ![t].version = rows]
  /\ UNCHANGED <<screen, rows, memory>>

\* What a load still has to do when its rows are shown, or cannot be had.
PageToReset(t) == task[t].write \in screen.kind.first

\* The rows are shown; their counts are asked for next.
RowsShown(t) ==
  LET m == Shown(Overtakes(memory, t), t, "rows", memory.late \cup memory.stale)
      last == ~screen.kind.counted /\ ~PageToReset(t)
  IN
  /\ At(t, "answered")
  /\ screen' = [screen EXCEPT !.at = IF screen.kind.counted THEN @ ELSE "open",
                              !.shown = [view |-> task[t].view, version |-> task[t].version]]
  /\ IF last THEN Ends(t) ELSE Goes(t, IF PageToReset(t) THEN "resetting" ELSE "counting")
  /\ memory' = IF last THEN Forget(m, t) ELSE m
  /\ UNCHANGED rows

CountRead(t) ==
  /\ At(t, "counting")
  /\ task' = [task EXCEPT ![t].pc = "counted", ![t].version = rows]
  /\ UNCHANGED <<screen, rows, memory>>

\* leave uncounted: no error is shown, not even for a 401.
CountFails(t) ==
  /\ At(t, "counting")
  /\ task' = [task EXCEPT ![t].pc = "counted", ![t].version = None]
  /\ UNCHANGED <<screen, rows, memory>>

\* The counts replace all those shown before; loading is over.
CountsShown(t) ==
  /\ At(t, "counted")
  /\ screen' = [screen EXCEPT !.at = "open", !.count = task[t].version]
  /\ Ends(t)
  /\ memory' = Forget(Shown(memory, t, "counts", memory.late), t)
  /\ UNCHANGED rows

\* A failed load leaves the rows and shows an error; loading is over.
LoadFails(t) ==
  /\ At(t, "session") \/ At(t, "asked")
  /\ screen' = [screen EXCEPT !.at = "open", !.error = TRUE]
  /\ IF PageToReset(t) THEN Goes(t, "resetting") ELSE Ends(t)
  /\ memory' = IF PageToReset(t) THEN Overtakes(memory, t) ELSE Forget(Overtakes(memory, t), t)
  /\ UNCHANGED rows

\* setPage(1), when the rows of a sync and the escalations have been dealt with:
\* no load follows, and the rows may be those of another page by now.
PageReset(t) ==
  LET otherPage == screen.view.page # 1
      off == {u \in Loading : task[u].view # FirstPage(screen.view)}
      m == [memory EXCEPT !.astray = IF otherPage /\ t \in memory.late THEN @ \cup {"rows"} ELSE @,
                          !.stale = IF otherPage THEN @ \cup off ELSE @]
  IN
  /\ At(t, "resetting")
  /\ screen' = [screen EXCEPT !.view = FirstPage(@)]
  /\ Ends(t)
  /\ memory' = Forget(m, t)
  /\ UNCHANGED rows

\* 401: router.push('/login'), and whatever is still awaited goes nowhere, and what
\* the screen held is gone.  The dashboard shows that of a reload as an error
\* instead.
SignedOut(t) ==
  /\ At(t, "session") \/ At(t, "asked")
  /\ task[t].write # "syncMetrics"
  /\ screen' = [Blank(screen.kind) EXCEPT !.at = "left"]
  /\ task' = [u \in Task |-> Idle]
  /\ memory' = NoMemory
  /\ UNCHANGED rows

\* The change handler loads; or two effects do, one of them the whole of loadInitial.
ViewChanges(t, u, v) ==
  /\ screen.at = "open"
  /\ screen.kind.by # "none"
  /\ v \in Views(screen.kind) \ {screen.view}
  /\ v.filter # screen.view.filter => v.page = 1
  /\ task[t] = Idle /\ task[u] = Idle
  /\ (t = u) = (screen.kind.by = "handler")
  /\ screen' = [screen EXCEPT !.view = v]
  /\ task' = [task EXCEPT ![u] = Call("session", v, None), ![t] = Call("asked", v, None)]
  /\ memory' = [memory EXCEPT !.before = @ \cup (Loading \X {t})]
  /\ UNCHANGED rows

\* handleOpenModal of the scheduler: the scores are loaded, the error goes.
DialogOpens ==
  /\ screen.at = "open"
  /\ screen.kind.dialog
  /\ screen.error
  /\ screen' = [screen EXCEPT !.error = FALSE]
  /\ memory' = [memory EXCEPT !.astray = {"rows", "counts"}]
  /\ UNCHANGED <<task, rows>>

-----------------------------------------------------------------------------
\* A dialog is closed once its write is acknowledged, and may be opened again
\* during the reload; a row button waits for its reload as well.
InFlight(w) ==
  \E t \in Task : /\ task[t] # Idle /\ task[t].write = w
                  /\ FromDialog(w) => task[t].pc \in {"sent", "applied"}

\* The view a handler reloads is the one of its own render.
Submits(t, w) ==
  /\ screen.at = "open" /\ screen.token
  /\ w \in screen.kind.writes
  /\ w \notin NeedNoRow => screen.shown # None
  /\ w \in screen.kind.alone => ~InFlight(w)
  /\ task[t] = Idle
  /\ task' = [task EXCEPT ![t] = Call("sent", screen.view, w)]
  /\ screen' = [screen EXCEPT !.error = @ /\ w \notin screen.kind.wipes]
  /\ UNCHANGED <<rows, memory>>

WriteApplied(t) ==
  /\ At(t, "sent")
  /\ IF task[t].write \in RowsUnchanged THEN UNCHANGED rows
     ELSE rows < MaxRows /\ rows' = rows + 1
  /\ task' = [task EXCEPT ![t].pc = "applied", ![t].version = rows']
  /\ UNCHANGED <<screen, memory>>

\* Mutant: the screen waits for the next visit.
ReloadsNever(w) == FALSE

ReloadsAfter(w) == w \in screen.kind.reloads

WriteAnswered(t) ==
  LET w == task[t].write
      view == IF w \in screen.kind.first THEN FirstPage(task[t].view) ELSE task[t].view
      m == [memory EXCEPT !.mine = IF w \in RowsUnchanged \/ @ > task[t].version THEN @
                                   ELSE task[t].version]
  IN
  /\ At(t, "applied")
  /\ IF ReloadsAfter(w)
       THEN /\ task' = [task EXCEPT ![t].pc = "asked", ![t].view = view, ![t].version = 0]
            /\ memory' = Asked(m, t, w, view)
       ELSE Ends(t) /\ memory' = m
  /\ UNCHANGED <<screen, rows>>

\* The server refuses, or its answer is lost: nothing is reloaded.  A dialog
\* shows the error itself, the screen shows those of its buttons.
WriteFails(t) ==
  /\ At(t, "sent") \/ At(t, "applied")
  /\ screen' = [screen EXCEPT !.error = @ \/ ~FromDialog(task[t].write)]
  /\ Ends(t)
  /\ UNCHANGED <<rows, memory>>

OthersWrite ==
  /\ rows < MaxRows
  /\ rows' = rows + 1
  /\ UNCHANGED <<screen, task, memory>>

ScreenNext ==
  \/ \E t \in Task : \/ \E s \in AllScreens : ScreenOpens(s, t)
                     \/ SessionAnswered(t) \/ RowsRead(t) \/ RowsShown(t) \/ LoadFails(t)
                     \/ CountRead(t) \/ CountFails(t) \/ CountsShown(t)
                     \/ PageReset(t) \/ SignedOut(t)
                     \/ \E u \in Task, v \in Views(screen.kind) : ViewChanges(t, u, v)
                     \/ \E w \in screen.kind.writes : Submits(t, w)
                     \/ WriteApplied(t) \/ WriteAnswered(t) \/ WriteFails(t)
  \/ DialogOpens
  \/ OthersWrite

ScreenSpec == ScreenInit /\ [][ScreenNext]_screenVars

-----------------------------------------------------------------------------
\* When nothing is awaited and no error is up, a screen shows the rows of the
\* view that is set, none older than its user's last acknowledged write, and
\* beside a row no count older than that write, but perhaps none; although loads
\* fail, counts silently, and writes, reloads and changes of the view overlap.
\* Excepted is a screen whose rows, or counts, are the last shown
\*   by a load that one asked later had overtaken, or by a handler or an effect
\*   of an older view;
\*   before a sync set the page back over a later load;
\*   before a dialog was opened, which clears the error of a failed reload.
\* (In each of these the statement is false of this code.)
ScreenIsCurrent ==
  screen.at = "open" /\ ~Awaiting /\ ~screen.error =>
    /\ "rows" \notin memory.astray =>
         /\ screen.shown # None
         /\ screen.shown.view = screen.view
         /\ screen.shown.version >= memory.mine
    /\ "counts" \notin memory.astray /\ screen.count # None => screen.count >= memory.mine
=============================================================================
