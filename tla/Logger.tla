------------------------------- MODULE Logger -------------------------------
(***************************************************************************)
(* src/logger_manager.c: messages are put aside in saved_logs while        *)
(* is_accumulation holds, and handed to the registered stores when the     *)
(* list is drained: by iam__logger_manager_flush at the end of iam_init    *)
(* and by iam__logger_manager_exit.  Before the first iam_init nothing is  *)
(* put aside: iam__logger_put hands a message to the stores directly.      *)
(* Both loops are modelled one call of a store's save function per step,   *)
(* because save is a plugin's code and may itself log or register a store; *)
(* in direct mode that starts a loop within the loop, hence a stack of     *)
(* calls.  The lists are the sequences that ListSpec shows src/list.c to   *)
(* implement.                                                              *)
(***************************************************************************)
EXTENDS SequencesExt

CONSTANTS
  Levels,     \* the levels messages are logged with, as sets of bits
  Filters,    \* the masks stores are registered with, as sets of bits
  TraceBit,   \* the bit of value 1, IAM_TRACE
  Console,    \* IAM_CONSOLE: the library is built with IAM_CONSOLE_LOG
  MemoryFails, \* whether malloc may return NULL
  MaxMessages, MaxStores  \* bounds: calls that log, stores ever registered

ASSUME LevelAssumption == \A l \in Levels : l # {}
ASSUME BoundAssumption == MaxMessages \in Nat /\ MaxStores \in Nat
ASSUME BuildAssumption == Console \in BOOLEAN /\ MemoryFails \in BOOLEAN

VARIABLES
  phase,         \* which part of the program runs, see Phases
  accumulating,  \* is_accumulation
  saved,         \* iam__saved_logs
  stores,        \* iam__log_stores
  bufs,          \* iam__bufs: the texts iam_logger_putf formatted
  text,          \* the formatted texts still allocated
  at,            \* the store the drain has reached, 0 outside a drain
  saving,        \* a store's save function is running, called by the drain
  direct,        \* the calls of iam__logger_put handing over, the last on top
  serial,        \* number of the next message
  registered,    \* stores registered so far
  delivered,     \* history: per store, the messages its save was called with
  drained,       \* history: the messages whose hand-over is over
  dropped,       \* history: the messages an iam_init forgot
  within         \* history: <<n, o>>, n was logged while o was handed over

lists == <<saved, stores, bufs, text>>
drain == <<at, saving>>
history == <<delivered, drained, dropped, within>>
vars == <<phase, accumulating, lists, drain, direct, serial, registered, history>>

(* off: before iam_init and after iam_exit; loading: iam_init loads the    *)
(* plugins and their settings; flushing; running: iam_init has returned;   *)
(* closing: iam__logger_manager_exit drains; closed: the rest of iam_exit, *)
(* where the plugins' exit functions run.                                  *)
Phases == {"off", "loading", "flushing", "running", "closing", "closed"}

Top == direct[Len(direct)]

(* Library, plugin and program code that may call the logger runs outside  *)
(* the two loops, or inside them within a store's save function.           *)
CallerRuns == IF direct # << >> THEN Top.saving ELSE at = 0 \/ saving

NoText == 0
(* Variant: the level is not stored in the message.                        *)
MessageNoLevel(l, t) == [n |-> serial, level |-> {}, buf |-> t, phase |-> phase]

Message(l, t) == [n |-> serial, level |-> l, buf |-> t, phase |-> phase]

(* `filter & level != 0` is `filter & (level != 0)` to a C compiler: what  *)
(* decides is the lowest bit of the filter, although logger.h:64 calls it  *)
(* a filter of message levels.                                             *)
Passes(filter, level) == IF level # {} THEN TraceBit \in filter ELSE FALSE

(* The guard of iam_logger_puts and iam_logger_putf.                       *)
Listening == accumulating \/ Len(stores) > 0 \/ Console

NewMessage == serial <= MaxMessages /\ serial' = serial + 1

(* iam__logger_put: the message is put aside, or the loop that hands it to *)
(* the stores begins.  With no memory for it or for its list node it is    *)
(* lost and nothing remains to be seen of it.                              *)
PutAside(m) == accumulating /\ saved' = Append(saved, m) /\ UNCHANGED <<direct, within>>

PutDirect(m) ==
  /\ ~accumulating
  /\ direct' = Append(direct, [m |-> m, at |-> 1, saving |-> FALSE])
  /\ within' = within \cup {<<m.n, direct[i].m.n>> : i \in 1 .. Len(direct)}
  /\ UNCHANGED saved

PutNothing == UNCHANGED <<saved, direct, within>>

Put(m) == NewMessage /\ (PutAside(m) \/ PutDirect(m) \/ (MemoryFails /\ PutNothing))

Init ==
  /\ phase = "off" /\ accumulating = FALSE
  /\ saved = << >> /\ stores = << >> /\ bufs = << >> /\ text = {}
  /\ at = 0 /\ saving = FALSE /\ direct = << >>
  /\ serial = 1 /\ registered = 0
  /\ delivered = [id \in 1 .. MaxStores |-> << >>] /\ drained = {} /\ dropped = {}
  /\ within = {}

(* iam_logger_puts: the text is a literal of the caller.                   *)
Puts(l) ==
  /\ CallerRuns /\ Listening
  /\ Put(Message(l, NoText))
  /\ UNCHANGED <<phase, accumulating, stores, bufs, text, drain, registered,
                 delivered, drained, dropped>>

(* iam_logger_putf: the text is copied to the heap and kept in bufs.  With *)
(* no memory for the copy nothing happens (a stuttering step), with none   *)
(* for its node the copy is lost, with none for the message it stays in    *)
(* bufs unused.                                                            *)
Putf(l) ==
  /\ CallerRuns /\ Listening
  /\ text' = text \cup {serial}
  /\ \/ bufs' = Append(bufs, serial) /\ Put(Message(l, serial))
     \/ MemoryFails /\ UNCHANGED bufs /\ NewMessage /\ PutNothing
  /\ UNCHANGED <<phase, accumulating, stores, drain, registered,
                 delivered, drained, dropped>>

(* iam_logger_reg_save: the store joins, and a trace message is logged     *)
(* (the guard of iam_logger_puts holds, there is a store).  With no memory *)
(* nothing happens (a stuttering step).                                    *)
RegSave(f) ==
  /\ CallerRuns
  /\ registered < MaxStores /\ registered' = registered + 1
  /\ stores' = Append(stores, [id |-> registered', filter |-> f])
  /\ Put(Message({TraceBit}, NoText))
  /\ UNCHANGED <<phase, accumulating, bufs, text, drain, delivered, drained, dropped>>

(* iam__logger_manager_init, at the start of iam_init.  It does not touch  *)
(* iam__bufs, and is the only place that sets is_accumulation.  (Calling   *)
(* iam_init from a save function is not modelled.)                         *)
LoggerInit ==
  /\ phase = "off" /\ direct = << >>
  /\ phase' = "loading"
  /\ accumulating' = TRUE
  /\ saved' = << >> /\ stores' = << >>
  /\ dropped' = dropped \cup ToSet(saved)
  /\ UNCHANGED <<bufs, text, drain, direct, serial, registered, delivered, drained, within>>

(* Variant: accumulation ends when the flush begins.                       *)
FlushDirect ==
  /\ phase = "loading"
  /\ phase' = "flushing" /\ at' = 1
  /\ accumulating' = FALSE
  /\ UNCHANGED <<lists, saving, direct, serial, registered, history>>

(* iam_init flushes at its end, or returns early when a plugin failed.     *)
Flush ==
  /\ phase = "loading"
  /\ phase' = "flushing" /\ at' = 1
  /\ UNCHANGED <<accumulating, lists, saving, direct, serial, registered, history>>

LoadFailed ==
  /\ phase = "loading"
  /\ phase' = "running"
  /\ UNCHANGED <<accumulating, lists, drain, direct, serial, registered, history>>

(* Variant: the texts are freed before the messages are saved.             *)
LoggerExitFreesFirst ==
  /\ phase = "running"
  /\ phase' = "closing" /\ at' = 1
  /\ text' = text \ ToSet(bufs) /\ bufs' = << >>
  /\ UNCHANGED <<accumulating, saved, stores, saving, direct, serial, registered, history>>

LoggerExit ==
  /\ phase = "running"
  /\ phase' = "closing" /\ at' = 1
  /\ UNCHANGED <<accumulating, lists, saving, direct, serial, registered, history>>

(* iam__list_free_act(&iam__saved_logs, iam__saved_logs_free): the loop    *)
(* over the stores inside the loop over the messages.                      *)
Draining == at > 0 /\ ~saving /\ direct = << >> /\ saved # << >>

SaveCall ==
  /\ Draining /\ at <= Len(stores)
  /\ Passes(stores[at].filter, Head(saved).level)
  /\ saving' = TRUE
  /\ delivered' = [delivered EXCEPT ![stores[at].id] = Append(@, Head(saved).n)]
  /\ UNCHANGED <<phase, accumulating, lists, at, direct, serial, registered, drained,
                 dropped, within>>

SaveReturn ==
  /\ saving /\ direct = << >>
  /\ saving' = FALSE /\ at' = at + 1
  /\ UNCHANGED <<phase, accumulating, lists, direct, serial, registered, history>>

(* Variant: the store loop does not move past a store it skips.            *)
SkipStays ==
  /\ Draining /\ at <= Len(stores)
  /\ ~Passes(stores[at].filter, Head(saved).level)
  /\ UNCHANGED vars

SkipStore ==
  /\ Draining /\ at <= Len(stores)
  /\ ~Passes(stores[at].filter, Head(saved).level)
  /\ at' = at + 1
  /\ UNCHANGED <<phase, accumulating, lists, saving, direct, serial, registered, history>>

(* Variant: the store loop stops one store early.                          *)
NextMessageEarly ==
  /\ Draining /\ at >= Len(stores)
  /\ saved' = Tail(saved) /\ at' = 1
  /\ drained' = drained \cup {Head(saved)}
  /\ UNCHANGED <<phase, accumulating, stores, bufs, text, saving, direct, serial,
                 registered, delivered, dropped, within>>

NextMessage ==
  /\ Draining /\ at > Len(stores)
  /\ saved' = Tail(saved) /\ at' = 1
  /\ drained' = drained \cup {Head(saved)}
  /\ UNCHANGED <<phase, accumulating, stores, bufs, text, saving, direct, serial,
                 registered, delivered, dropped, within>>

FlushEnd ==
  /\ phase = "flushing" /\ saved = << >>
  /\ phase' = "running" /\ at' = 0
  /\ UNCHANGED <<accumulating, lists, saving, direct, serial, registered, history>>

(* Variant: the logger closes without draining, and frees no text.         *)
ExitUndrained ==
  /\ phase = "closing" /\ ~saving
  /\ phase' = "closed" /\ at' = 0
  /\ stores' = << >>
  /\ UNCHANGED <<accumulating, saved, bufs, text, saving, direct, serial, registered, history>>

ExitEnd ==
  /\ phase = "closing" /\ saved = << >>
  /\ phase' = "closed" /\ at' = 0
  /\ stores' = << >>
  /\ text' = text \ ToSet(bufs)
  /\ bufs' = << >>
  /\ UNCHANGED <<accumulating, saved, saving, direct, serial, registered, history>>

(* iam_exit returns.                                                       *)
IamExitReturns ==
  /\ phase = "closed"
  /\ phase' = "off"
  /\ UNCHANGED <<accumulating, lists, drain, direct, serial, registered, history>>

(* The loop of iam__logger_put over the stores in direct mode: the link to *)
(* the next store is read after save has returned.                         *)
Directing == direct # << >> /\ ~Top.saving
ForNextStore == [m |-> Top.m, at |-> Top.at + 1, saving |-> FALSE]
ReplaceTop(f) == direct' = [direct EXCEPT ![Len(direct)] = f]

DirectCall ==
  /\ Directing /\ Top.at <= Len(stores)
  /\ Passes(stores[Top.at].filter, Top.m.level)
  /\ ReplaceTop([Top EXCEPT !.saving = TRUE])
  /\ delivered' = [delivered EXCEPT ![stores[Top.at].id] = Append(@, Top.m.n)]
  /\ UNCHANGED <<phase, accumulating, lists, drain, serial, registered, drained,
                 dropped, within>>

DirectReturn ==
  /\ direct # << >> /\ Top.saving
  /\ ReplaceTop(ForNextStore)
  /\ UNCHANGED <<phase, accumulating, lists, drain, serial, registered, history>>

DirectSkip ==
  /\ Directing /\ Top.at <= Len(stores)
  /\ ~Passes(stores[Top.at].filter, Top.m.level)
  /\ ReplaceTop(ForNextStore)
  /\ UNCHANGED <<phase, accumulating, lists, drain, serial, registered, history>>

DirectEnd ==
  /\ Directing /\ Top.at > Len(stores)
  /\ direct' = Front(direct)
  /\ drained' = drained \cup {Top.m}
  /\ UNCHANGED <<phase, accumulating, lists, drain, serial, registered, delivered,
                 dropped, within>>

DirectStep == DirectCall \/ DirectReturn \/ DirectSkip \/ DirectEnd

DrainStep == SaveCall \/ SaveReturn \/ SkipStore \/ NextMessage \/ FlushEnd \/ ExitEnd

Next ==
  \/ \E l \in Levels : Puts(l) \/ Putf(l)
  \/ \E f \in Filters : RegSave(f)
  \/ LoggerInit \/ Flush \/ LoadFailed \/ LoggerExit \/ IamExitReturns
  \/ DrainStep \/ DirectStep

(* The loops are run by one thread: they go on.  That a save function      *)
(* returns is the plugins' part of the contract.                           *)
Spec == Init /\ [][Next]_vars /\ WF_vars(DrainStep \/ DirectStep)
-----------------------------------------------------------------------------
MessageSet == [n : 1 .. MaxMessages, level : Levels \cup {{TraceBit}},
               buf : 0 .. MaxMessages, phase : Phases]
Frames == Seq([m : MessageSet, at : Nat \ {0}, saving : BOOLEAN])

(* The logger's globals and the progress of its loops have their types.    *)
TypeOK ==
  /\ phase \in Phases /\ accumulating \in BOOLEAN /\ saving \in BOOLEAN
  /\ saved \in Seq(MessageSet)
  /\ stores \in Seq([id : 1 .. MaxStores, filter : Filters])
  /\ bufs \in Seq(1 .. MaxMessages) /\ text \subseteq 1 .. MaxMessages
  /\ at \in Nat /\ serial \in 1 .. MaxMessages + 1 /\ registered \in 0 .. MaxStores
  /\ delivered \in [1 .. MaxStores -> Seq(1 .. MaxMessages)]
  /\ direct \in Frames
  /\ drained \subseteq MessageSet /\ dropped \subseteq MessageSet
  /\ within \subseteq (1 .. MaxMessages) \X (1 .. MaxMessages)

(* A store gets no message twice, and gets them in the order in which they *)
(* were logged, across direct calls, flush and exit.  The one exception is *)
(* what a save function logs in direct mode, before the first iam_init: it *)
(* reaches the stores ahead of those being handed over and may overtake    *)
(* them, and no others.                                                    *)
InOrderOnce ==
  \A id \in 1 .. MaxStores : \A i, j \in 1 .. Len(delivered[id]) :
    LET a == delivered[id][i]
        b == delivered[id][j]
    IN  i < j => a # b /\ (a < b \/ <<a, b>> \in within)

(* A formatted text outlives every message that points to it: save never   *)
(* reads a freed text, neither in the loops nor after the buffers were     *)
(* freed by an earlier iam_exit and the library initialised again.         *)
TextOutlivesMessage ==
  /\ \A i \in 1 .. Len(saved) : saved[i].buf # NoText => saved[i].buf \in text
  /\ \A i \in 1 .. Len(direct) : direct[i].m.buf # NoText => direct[i].m.buf \in text

(* A message goes from saved_logs, or its direct hand-over ends, only when *)
(* every store registered by then that lets it pass has been given it.     *)
LeavesDelivered ==
  [][\A m \in drained' \ drained : \A i \in 1 .. Len(stores) :
       Passes(stores[i].filter, m.level)
         => m.n \in ToSet(delivered[stores[i].id])]_vars

(* What an iam_init forgets was logged after the logger had been closed,   *)
(* by an exit function of a plugin or while the library was off: whatever  *)
(* is logged between iam_init and iam_exit is drained, the messages logged *)
(* after a failed load and those of save functions included.               *)
OnlyLateForgotten == \A m \in dropped : m.phase \in {"closed", "off"}

(* A drain, and a direct hand-over with all those within it, ends when the *)
(* save functions stop logging.                                            *)
DrainEnds == (at > 0 \/ direct # << >>) ~> (at = 0 /\ direct = << >>)
=============================================================================
