------------------------------- MODULE ChangeLog ------------------------------
(***************************************************************************)
(* The log of parameter changes beside a bot's config (src/src/changelog,  *)
(* run in src/src/main.rs, src/src/panel/http/changes.rs).                 *)
(*                                                                         *)
(* The panel records each save; whatever else changed the config is found  *)
(* by comparing it with a snapshot, when the bot starts and before a save. *)
(* A lock keeps recorders apart.  The bot ships the journal to Textile if  *)
(* its operator opted in, and the panel does before it replaces the key    *)
(* that says whose records they are; the two share a cursor and no lock.   *)
(*                                                                         *)
(* A line of the journal is one parameter's change; texts are hashed by    *)
(* themselves, and offsets count lines.                                    *)
(***************************************************************************)
EXTENDS Integers, Sequences, FiniteSets, FiniteSetsExt

CONSTANTS
  Values,     \* values of a parameter beside the shipping switch
  Comments,   \* what else a config says, none of it tracked
  Oversized,  \* values the API refuses
  MaxBatch,   \* MAX_BATCH
  MaxKeys,    \* bound: maker keys
  MaxChanges, \* bound: saves and edits
  MaxFaults   \* bound: writes that fail

ASSUME ConstantsTyped ==
  /\ Values \subseteq Nat /\ Comments \subseteq Nat /\ Oversized \subseteq Values
  /\ MaxBatch \in Nat \ {0} /\ {MaxKeys, MaxChanges, MaxFaults} \subseteq Nat

VARIABLES
  file,     \* the config
  journal,  \* change-log.jsonl
  torn,     \* it ends in part of a line
  snapshot, \* change-log.snapshot
  cursor,   \* change-log.shipped
  refused,  \* change-log.refused
  key,      \* the maker key beside the config
  panel,    \* the panel's request on the bot, one at a time (lock_config)
  bot,      \* the bot, from reading its config on
  ship,     \* ship_pending, the bot's and the panel's
  stored,   \* what Textile stored, by line, and the maker it is filed under
  changes,  \* saves and edits so far
  faults,   \* failed writes so far
  doubt,    \* ghost: an append was torn, or a config was compared with a
            \* snapshot the journal is ahead of
  dropped   \* ghost: notes of refusals that another shipper has written over

config   == <<file, changes>>
log      == <<journal, torn, snapshot, faults, doubt>>
shipping == <<cursor, refused, ship, stored, dropped>>
vars == <<config, log, shipping, key, panel, bot>>

None == -1
Text   == [ship : {0, 1}, value : Values, comment : Comments]
NoText == [ship |-> None, value |-> None, comment |-> None]

\* The tracked parameters.
Tracked == {"ship", "value"}

NoLine == [param |-> "none", before |-> None, after |-> None, text |-> NoText]

Shippers == {"bot", "panel"}
NoShip == [pc |-> "idle", limit |-> 0, lines |-> {}, end |-> 0, full |-> FALSE,
           at |-> 0, copy |-> {}]
Everything == 2 * (2 * MaxChanges + MaxFaults + 2) \* until for Mode::Continuous: no line is beyond it

IdlePanel == [pc |-> "idle", old |-> NoText, new |-> NoText, until |-> 0, due |-> {}]
Down == [pc |-> "down", text |-> NoText, until |-> 0, key |-> 0]

----------------------------------------------------------------------------
(* The journal and the snapshot. *)

\* The value the first n lines leave a parameter at.
Replayed(param, n) ==
  LET about == {i \in 1..n : journal[i].param = param}
  IN IF about = {} THEN None ELSE journal[Max(about)].after

Describe(n, text) == \A param \in Tracked : Replayed(param, n) = text[param]

\* last_recorded_hash
LastText ==
  LET whole == {i \in DOMAIN journal : journal[i] # NoLine}
  IN IF whole = {} THEN NoText ELSE journal[Max(whole)].text

\* The snapshot is one the journal has gone beyond.
Ahead ==
  /\ ~Describe(Len(journal), snapshot)
  /\ \E n \in 0..Len(journal) : Describe(n, snapshot)

Moved(param, old, new) ==
  IF old[param] = new[param] THEN <<>>
  ELSE <<[param |-> param, before |-> old[param], after |-> new[param], text |-> new]>>

\* The records of a change, in the order of a change set; all values, if there
\* was no config.
Diff(old, new) == Moved("ship", old, new) \o Moved("value", old, new)

\* Lines after part of one: the first is lost in it.
Glued(lines) ==
  journal \o (IF torn /\ lines # <<>> THEN <<NoLine>> \o Tail(lines) ELSE lines)

Appended(lines) == [journal |-> Glued(lines), torn |-> torn /\ lines = <<>>]

\* What is left of an append that fails or that its process does not survive:
\* nothing, some lines and part of one, or all of them.
Remains(lines) ==
  {[journal |-> journal, torn |-> torn], Appended(lines)}
  \cup {[journal |-> Glued(SubSeq(lines, 1, k)), torn |-> TRUE] : k \in 0..Len(lines) - 1}

\* Mutant: the snapshot is replaced before the append.
MutRecording(lines, text) ==
  {[log |-> Appended(lines), snapshot |-> text, ok |-> TRUE]}
  \cup {[log |-> l, snapshot |-> text, ok |-> FALSE] : l \in Remains(lines)}

\* The outcomes of append and write_snapshot, in this order.
Recording(lines, text) ==
  {[log |-> Appended(lines), snapshot |-> text, ok |-> TRUE]}
  \cup {[log |-> l, snapshot |-> snapshot, ok |-> FALSE] : l \in Remains(lines)}

Records(o) ==
  /\ o.ok \/ faults < MaxFaults
  /\ faults' = IF o.ok THEN faults ELSE faults + 1
  /\ journal' = o.log.journal /\ torn' = o.log.torn /\ snapshot' = o.snapshot

\* catch_up. A text that the journal ends at already has only its snapshot repaired.
CatchUps(text) ==
  IF text = snapshot THEN {[log |-> Appended(<<>>), snapshot |-> text, ok |-> TRUE]}
  ELSE Recording(IF text = LastText THEN <<>> ELSE Diff(snapshot, text), text)

Doubts(text) == Ahead /\ text # LastText

----------------------------------------------------------------------------
Init ==
  /\ file \in Text
  /\ journal = <<>> /\ torn = FALSE /\ snapshot = NoText
  /\ cursor = 0 /\ refused = {} /\ key = 1
  /\ panel = IdlePanel /\ bot = Down
  /\ ship = [w \in Shippers |-> NoShip] /\ stored = {} /\ dropped = {}
  /\ changes = 0 /\ faults = 0 /\ doubt = FALSE

Change == changes < MaxChanges /\ changes' = changes + 1

\* An editor on the host, or a restored backup.
HostEdit ==
  /\ Change
  /\ file' \in Text \ {file}
  /\ UNCHANGED <<log, shipping, key, panel, bot>>

----------------------------------------------------------------------------
(* write_config_recorded. *)

\* The lock, the config as it is now, and what changed it since the snapshot.  A
\* log that does not work stops no save.
Save(new) ==
  /\ panel.pc = "idle"
  /\ Change
  /\ \E o \in CatchUps(file) :
       /\ Records(o) /\ doubt' = (doubt \/ Doubts(file) \/ o.log.torn)
       /\ IF o.ok THEN /\ panel' = [IdlePanel EXCEPT !.pc = "ready", !.old = file, !.new = new]
                       /\ UNCHANGED file
          ELSE file' = new /\ UNCHANGED panel
  /\ UNCHANGED <<shipping, key, bot>>

WriteConfig ==
  /\ panel.pc = "ready"
  /\ file' = panel.new
  /\ panel' = [panel EXCEPT !.pc = "written"]
  /\ UNCHANGED <<changes, log, shipping, key, bot>>

\* record
Record ==
  /\ panel.pc = "written"
  /\ \E o \in Recording(Diff(panel.old, panel.new), panel.new) :
       Records(o) /\ doubt' = (doubt \/ o.log.torn)
  /\ panel' = IdlePanel
  /\ UNCHANGED <<config, shipping, key, bot>>

----------------------------------------------------------------------------
(* What there is to ship. *)

\* Mutant: a line that is no record is waited for.
MutPending(lines, from, limit, max) ==
  LET start == IF from > limit THEN 0 ELSE from
      whole == {i \in start + 1..limit : \A j \in start + 1..i : lines[j] # NoLine}
      first == {i \in whole : Cardinality({j \in whole : j <= i}) <= max}
  IN [NoShip EXCEPT !.lines = first, !.full = Cardinality(whole) >= max,
                    !.end = IF first = {} THEN start ELSE Max(first)]

\* pending: the batch from a cursor up to a limit; what is no record is passed over.
Pending(lines, from, limit, max) ==
  LET start == IF from > limit THEN 0 ELSE from
      whole == {i \in start + 1..limit : lines[i] # NoLine}
      first == {i \in whole : Cardinality({j \in whole : j <= i}) <= max}
      full  == Cardinality(whole) >= max
  IN [NoShip EXCEPT !.lines = first, !.full = full,
                    !.end = IF full THEN Max(first) ELSE limit]

Unshipped(lines) == Pending(lines, cursor, Len(lines), Len(lines) + 1).lines

\* mode and opt_out_end: how far to ship, up to the newest record of switching
\* shipping off if it is off.
Until(on, lines) ==
  LET off == {i \in Unshipped(lines) : /\ lines[i].param = "ship"
                                       /\ lines[i].before = 1 /\ lines[i].after = 0}
  IN CASE on = 1              -> Everything
       [] on # 1 /\ off # {} -> Max(off)
       [] OTHER              -> 0

Least(a, b) == IF a < b THEN a ELSE b

\* owed
Owed == {i \in Unshipped(journal) : i <= Until(file.ship, journal)}

----------------------------------------------------------------------------
(* The bot. *)

ReadConfig ==
  /\ bot.pc = "down"
  /\ bot' = [Down EXCEPT !.pc = "read", !.text = file]
  /\ UNCHANGED <<config, log, shipping, key, panel>>

Runs(until) == bot' = [Down EXCEPT !.pc = "up", !.until = until]

\* A bot that ships does not run on a config it could not record.
Unrecorded == IF bot.text.ship = 1 THEN bot' = Down ELSE Runs(0)

\* record_startup
CatchUpAtStart ==
  /\ bot.pc = "read"
  /\ panel.pc \notin {"ready", "written"} \* the lock
  /\ \E o \in CatchUps(bot.text) :
       /\ Records(o) /\ doubt' = (doubt \/ Doubts(bot.text) \/ o.log.torn)
       /\ IF o.ok THEN Runs(Until(bot.text.ship, o.log.journal)) ELSE Unrecorded
  /\ UNCHANGED <<config, shipping, key, panel>>

\* spawn, with the key as it is now.  A bot whose credential cannot be read, or
\* that has none, ships nothing until it is started again.
Spawn ==
  /\ bot.pc = "up" /\ bot.until > 0
  /\ bot' \in {[bot EXCEPT !.pc = "ships", !.key = key], [bot EXCEPT !.until = 0]}
  /\ UNCHANGED <<config, log, shipping, key, panel>>

Stop ==
  /\ bot.pc # "down"
  /\ bot' = Down
  /\ ship' = [ship EXCEPT !["bot"] = NoShip]
  /\ UNCHANGED <<config, log, cursor, refused, stored, dropped, key, panel>>

----------------------------------------------------------------------------
(* A change of the maker key. *)

\* Mutant: nothing is delivered first.
MutChangeKey ==
  /\ panel.pc = "idle" /\ key < MaxKeys
  /\ panel' = [IdlePanel EXCEPT !.pc = "registering", !.due = Owed]
  /\ UNCHANGED <<config, log, shipping, key, bot>>

\* deliver_before_key_change
ChangeKey ==
  /\ panel.pc = "idle" /\ key < MaxKeys
  /\ panel' = IF Owed = {} THEN [IdlePanel EXCEPT !.pc = "registering"]
              ELSE [IdlePanel EXCEPT !.pc = "delivering", !.due = Owed,
                                     !.until = Until(file.ship, journal)]
  /\ UNCHANGED <<config, log, shipping, key, bot>>

\* The new key is stored; the save that goes with it comes next.
StoreKey ==
  /\ panel.pc = "registering"
  /\ key' = key + 1
  /\ panel' = IdlePanel
  /\ UNCHANGED <<config, log, shipping, bot>>

\* The panel stops, or its request ends in an error before it writes.
PanelStops ==
  /\ panel.pc # "idle"
  /\ panel' = IdlePanel
  /\ ship' = [ship EXCEPT !["panel"] = NoShip]
  /\ UNCHANGED <<config, log, cursor, refused, stored, dropped, key, bot>>

----------------------------------------------------------------------------
(* ship_pending, of the bot and of deliver_owed. *)

notShip == <<config, log, key>>

ActiveUntil(w) == CASE w = "bot" /\ bot.pc = "ships" -> bot.until
                    [] w = "panel" /\ panel.pc = "delivering" -> panel.until
                    [] OTHER -> 0

\* The bot's key is the one it began to ship with.
KeyOf(w) == IF w = "bot" THEN bot.key ELSE key

At(w, pc) == ship[w].pc = pc
Goes(w, next) == ship' = [ship EXCEPT ![w] = next]

\* All is sent: a bot that ships no more is done, and the panel looks at what
\* is owed once more.
Done(w) ==
  /\ Goes(w, NoShip)
  /\ CASE w = "bot" ->
            /\ bot' = IF bot.until < Everything THEN [Down EXCEPT !.pc = "up"] ELSE bot
            /\ UNCHANGED panel
       [] w = "panel" /\ Owed' = {} ->
            panel' = [panel EXCEPT !.pc = "registering", !.until = 0] /\ UNCHANGED bot
       [] w = "panel" /\ Owed' # {} -> panel' = IdlePanel /\ UNCHANGED bot

ReadJournal(w) ==
  /\ At(w, "idle") /\ ActiveUntil(w) > 0
  /\ Goes(w, [NoShip EXCEPT !.pc = "read", !.limit = Least(ActiveUntil(w), Len(journal))])
  /\ UNCHANGED <<notShip, cursor, refused, stored, dropped, panel, bot>>

\* A batch with no record in it leaves at most the cursor to save.
ReadCursor(w) ==
  /\ At(w, "read")
  /\ UNCHANGED <<notShip, cursor, refused, stored, dropped>>
  /\ LET batch == Pending(journal, cursor, ship[w].limit, MaxBatch)
     IN \/ batch.lines # {} /\ Goes(w, [batch EXCEPT !.pc = "post"]) /\ UNCHANGED <<panel, bot>>
        \/ /\ batch.lines = {} /\ batch.end # cursor
           /\ Goes(w, [batch EXCEPT !.pc = "saving"]) /\ UNCHANGED <<panel, bot>>
        \/ batch.lines = {} /\ batch.end = cursor /\ Done(w)

\* The API stores each record once, under the maker of the key it first came with.
Stores(w, lines) ==
  stored' = stored \cup {[line |-> i, maker |-> KeyOf(w)] :
                           i \in {i \in lines : \A s \in stored : s.line # i}}

TooLarge(i) == journal[i].param = "value" /\ journal[i].after \in Oversized

Accepted(w) ==
  /\ At(w, "post") /\ \A i \in ship[w].lines : ~TooLarge(i)
  /\ Stores(w, ship[w].lines)
  /\ Goes(w, [ship[w] EXCEPT !.pc = "saving", !.lines = {}])
  /\ UNCHANGED <<notShip, cursor, refused, dropped, panel, bot>>

BatchRefused(w) ==
  /\ At(w, "post") /\ \E i \in ship[w].lines : TooLarge(i)
  /\ Goes(w, [ship[w] EXCEPT !.pc = "single"])
  /\ UNCHANGED <<notShip, cursor, refused, stored, dropped, panel, bot>>

Sent(w, i) ==
  Goes(w, [ship[w] EXCEPT !.pc = "step", !.at = i, !.lines = @ \ {i}, !.copy = {}])

\* Mutant: a record that was refused is not noted.
MutOneByOne(w) ==
  /\ At(w, "single")
  /\ LET i == Min(ship[w].lines)
     IN Sent(w, i) /\ IF TooLarge(i) THEN UNCHANGED stored ELSE Stores(w, {i})
  /\ UNCHANGED <<notShip, cursor, refused, dropped, panel, bot>>

\* ship_one_by_one: a record is stored; or it is refused, and note_refused has
\* read the notes there are.
OneByOne(w) ==
  /\ At(w, "single")
  /\ LET i == Min(ship[w].lines)
     IN \/ ~TooLarge(i) /\ Stores(w, {i}) /\ Sent(w, i)
        \/ /\ TooLarge(i)
           /\ Goes(w, [ship[w] EXCEPT !.pc = "noting", !.copy = refused])
           /\ UNCHANGED stored
  /\ UNCHANGED <<notShip, cursor, refused, dropped, panel, bot>>

\* The notes are replaced whole: whatever was added to them since goes.
Note(w) ==
  /\ At(w, "noting")
  /\ LET i == Min(ship[w].lines)
     IN refused' = ship[w].copy \cup {i} /\ Sent(w, i)
  /\ dropped' = dropped \cup (refused \ refused')
  /\ UNCHANGED <<notShip, cursor, stored, panel, bot>>

\* The cursor after a single record, and after the batch.  Another batch follows
\* a full one.
SaveEntry(w) ==
  /\ At(w, "step")
  /\ cursor' = ship[w].at
  /\ Goes(w, [ship[w] EXCEPT !.pc = IF ship[w].lines = {} THEN "saving" ELSE "single", !.at = 0])
  /\ UNCHANGED <<notShip, refused, stored, dropped, panel, bot>>

SaveBatch(w) ==
  /\ At(w, "saving")
  /\ cursor' = ship[w].end
  /\ UNCHANGED <<notShip, refused, stored, dropped>>
  /\ \/ ship[w].full /\ Goes(w, NoShip) /\ UNCHANGED <<panel, bot>>
     \/ ~ship[w].full /\ Done(w)

\* Textile cannot be reached, or its answer is lost, or a file cannot be written:
\* the bot tries again on the next tick, the panel refuses the change of key.  An
\* answer that is lost is one that comes and cannot be saved.
Fails(w) ==
  /\ ship[w].pc \notin {"idle", "read"}
  /\ Goes(w, NoShip)
  /\ panel' = IF w = "panel" THEN IdlePanel ELSE panel
  /\ UNCHANGED <<notShip, cursor, refused, stored, dropped, bot>>

Ships(w) ==
  \/ ReadJournal(w) \/ ReadCursor(w) \/ Accepted(w) \/ BatchRefused(w)
  \/ OneByOne(w) \/ Note(w) \/ SaveEntry(w) \/ SaveBatch(w) \/ Fails(w)

----------------------------------------------------------------------------
Panel ==
  \/ \E new \in Text : Save(new)
  \/ WriteConfig \/ Record
  \/ ChangeKey \/ StoreKey \/ PanelStops

Bot == ReadConfig \/ CatchUpAtStart \/ Spawn \/ Stop

Next == HostEdit \/ Panel \/ Bot \/ \E w \in Shippers : Ships(w)

Spec == Init /\ [][Next]_vars

\* The bot's task keeps being polled, and again and again Textile answers, a
\* batch and also a single record, and each file can be written.
Fairness ==
  /\ WF_vars(ReadJournal("bot") \/ ReadCursor("bot"))
  /\ SF_vars(Accepted("bot") \/ BatchRefused("bot"))
  /\ SF_vars(OneByOne("bot"))
  /\ SF_vars(Note("bot"))
  /\ SF_vars(SaveEntry("bot"))
  /\ SF_vars(SaveBatch("bot"))

FairSpec == Spec /\ Fairness

----------------------------------------------------------------------------
\* A bot that ships never runs on a change nobody recorded: as it starts, the
\* journal, read from its first line, is a chain of changes, none twice and
\* none left out, that ends at the config it read.  This is so unless the log
\* lost its way (doubt).
RunsRecorded ==
  [][bot.pc = "read" /\ bot'.pc = "up" /\ bot.text.ship = 1 /\ ~doubt' =>
       /\ \A param \in Tracked : Replayed(param, Len(journal))' = bot.text[param]
       /\ \A i \in DOMAIN journal' : journal'[i].before = Replayed(journal[i].param, i - 1)']_vars

\* Noted as refused, though the note may have been dropped since.
Noted(i) == i \in refused \cup dropped

Filed(i) == Noted(i) \/ \E s \in stored : s.line = i

\* Whatever answers were lost, whatever could not be written and however the bot
\* and the panel ship the same lines at once, step by step, the cursor passes none
\* that Textile has not stored, nor refused and this host noted.  A note counts
\* though the other shipper has written over it since (dropped): the notes are
\* replaced whole and no lock is held.
NothingSkipped == \A i \in 1..cursor : journal[i] = NoLine \/ Filed(i)

\* What was owed when a change of the key was asked for is filed under a maker
\* before it, or noted as refused.
FiledInTime ==
  [][key' # key => \A i \in panel.due :
       Noted(i) \/ \E s \in stored : s.line = i /\ s.maker <= key]_vars

Owing(until) == {i \in DOMAIN journal : i <= until /\ journal[i] # NoLine /\ ~Filed(i)}

\* A bot that began to ship and is not stopped gets all it has to ship, the record
\* of switching shipping off included, to Textile or notes it as refused, unless
\* the panel delivers again and again beside it.
Delivered == []<>(bot.pc # "ships" \/ panel.pc = "delivering" \/ Owing(bot.until) = {})

=============================================================================
