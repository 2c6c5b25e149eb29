----------------------------- MODULE TodoLists ------------------------------
(***************************************************************************)
(* A to-do list kept by the server (todo-storage.go, todo.js): every tab   *)
(* that shows it sends the whole list after each change and does not wait  *)
(* for the answer; the server replaces all rows in one transaction.  Saves *)
(* may overtake each other, a load may fail, and a transaction may end     *)
(* anywhere: on an error, on another writer, or because a reload closed    *)
(* the database or the process died.                                       *)
(***************************************************************************)
EXTENDS Naturals, FiniteSets

CONSTANTS
    Tabs,
    Tasks,
    NoTab,          \* a tab that is gone, or no transaction's
    MaxSaves        \* bound on changes of the list

TodoAssumption == NoTab \notin Tabs

VARIABLES
    stored,     \* the committed rows
    tx,         \* the transaction that writes: its save and the rows so far
    tab,        \* tab -> [at, shown, seen]: seen is what it knows to be stored
    puts,       \* saves on their way: [tab, list, base, n], made from base
    saves,
    sent,       \* all lists that were sent, and the one there was at first
    kept,       \* tasks that were stored at some time
    deleted,    \* tasks somebody deleted
    careless    \* a list was saved by a tab that did not know what was stored

todoVars == <<stored, tx, tab, puts, saves, sent, kept, deleted, careless>>

NoSave == [tab |-> NoTab, list |-> {}, base |-> {}, n |-> 0]
NoTx == [save |-> NoSave, rows |-> {}]

TodoInit == \E t \in Tasks :
              /\ stored = {t} /\ sent = {{t}} /\ kept = {t}
              /\ tx = NoTx /\ puts = {} /\ saves = 0
              /\ tab = [b \in Tabs |-> [at |-> "closed", shown |-> {}, seen |-> {}]]
              /\ deleted = {} /\ careless = FALSE

OpenPage(b) ==
    /\ tab[b].at = "closed"
    /\ tab' = [tab EXCEPT ![b].at = "loading"]
    /\ UNCHANGED <<stored, tx, puts, saves, sent, kept, deleted, careless>>

\* loadTasks; renderItems replaces what was added meanwhile.
Loaded(b) ==
    /\ tab[b].at = "loading"
    /\ tab' = [tab EXCEPT ![b] = [at |-> "open", shown |-> stored, seen |-> stored]]
    /\ UNCHANGED <<stored, tx, puts, saves, sent, kept, deleted, careless>>

\* Any answer but 200 becomes an empty list.
LoadFails(b) ==
    /\ tab[b].at = "loading"
    /\ tab' = [tab EXCEPT ![b] = [at |-> "open", shown |-> {}, seen |-> {}]]
    /\ UNCHANGED <<stored, tx, puts, saves, sent, kept, deleted, careless>>

\* saveItems.  The list is empty until it has been loaded.
SaveItems(b, list) ==
    /\ tab[b].at /= "closed" /\ saves < MaxSaves
    /\ saves' = saves + 1
    /\ tab' = [tab EXCEPT ![b].shown = list]
    /\ puts' = puts \union {[tab |-> b, list |-> list, base |-> tab[b].seen, n |-> saves + 1]}
    /\ sent' = sent \union {list}
    /\ careless' = (\/ careless \/ tab[b].at = "loading" \/ tab[b].seen /= stored
                    \/ \E p \in puts : p.tab = b)
    /\ UNCHANGED <<stored, tx, kept>>

AddTask(b, t) ==
    /\ t \notin tab[b].shown
    /\ SaveItems(b, tab[b].shown \union {t})
    /\ UNCHANGED deleted

DeleteTask(b, t) ==
    /\ t \in tab[b].shown
    /\ SaveItems(b, tab[b].shown \ {t})
    /\ deleted' = deleted \union {t}

--------------------------------------------------------------------------------
\* saveTasks.

BeginTx(p) ==
    /\ tx = NoTx
    /\ tx' = [save |-> p, rows |-> {}]
    /\ careless' = (careless \/ p.base /= stored)
    /\ UNCHANGED <<stored, tab, puts, saves, sent, kept, deleted>>

InsertRow(t) ==
    /\ tx /= NoTx /\ t \in tx.save.list \ tx.rows
    /\ tx' = [tx EXCEPT !.rows = @ \union {t}]
    /\ UNCHANGED <<stored, tab, puts, saves, sent, kept, deleted, careless>>

Commit ==
    /\ tx /= NoTx /\ tx.rows = tx.save.list
    /\ stored' = tx.rows
    /\ kept' = (kept \union tx.rows)
    /\ puts' = puts \ {tx.save}
    /\ tab' = [b \in Tabs |-> IF b = tx.save.tab THEN [tab[b] EXCEPT !.seen = tx.rows] ELSE tab[b]]
    /\ tx' = NoTx
    /\ UNCHANGED <<saves, sent, deleted, careless>>

\* A mutant: there is no transaction.
RowsSoFar == tx.rows

\* The rows there are when a transaction does not reach its end.
RolledBack == stored

Rollback ==
    /\ tx /= NoTx
    /\ stored' = RolledBack
    /\ puts' = puts \ {tx.save}
    /\ tx' = NoTx
    /\ UNCHANGED <<tab, saves, sent, kept, deleted, careless>>

\* Lost, or refused: the database is locked, closed, or not the tab's to write.
SaveFails(p) ==
    /\ p /= tx.save
    /\ puts' = puts \ {p}
    /\ UNCHANGED <<stored, tx, tab, saves, sent, kept, deleted, careless>>

\* What is on its way arrives or not.
Orphan(b, p) == IF p.tab = b THEN [p EXCEPT !.tab = NoTab] ELSE p

ClosePage(b) ==
    /\ tab[b].at = "open"
    /\ tab' = [tab EXCEPT ![b] = [at |-> "closed", shown |-> {}, seen |-> {}]]
    /\ puts' = {Orphan(b, p) : p \in puts}
    /\ tx' = [tx EXCEPT !.save = Orphan(b, @)]
    /\ UNCHANGED <<stored, saves, sent, kept, deleted, careless>>

TodoNext ==
    \/ \E b \in Tabs : \/ OpenPage(b) \/ Loaded(b) \/ LoadFails(b) \/ ClosePage(b)
                       \/ \E t \in Tasks : AddTask(b, t) \/ DeleteTask(b, t)
    \/ \E p \in puts : BeginTx(p) \/ SaveFails(p)
    \/ \E t \in Tasks : InsertRow(t)
    \/ Commit \/ Rollback

TodoSpec == TodoInit /\ [][TodoNext]_todoVars

--------------------------------------------------------------------------------

\* Wherever a save breaks off, what is stored is a whole list that some tab
\* sent, and a task that was stored is lost only when it is deleted, or when a
\* tab saves a list without knowing what is stored: it has not loaded it, could
\* not, has another save on its way, or another tab saved since.
TasksSurvive ==
    /\ stored \in sent
    /\ ~careless => kept \ deleted \subseteq stored
=============================================================================
