--------------------------------- MODULE Log ---------------------------------
(***************************************************************************)
(* A process's log (lib/observability/src/logging.rs): an event is queued  *)
(* for each destination it goes to, a thread for each destination writes   *)
(* its queue out, and the log file is found again after it was rotated.    *)
(* A line is one of Targets; the file of the path is the newest generation *)
(* while `present`, and the file that is open is generation `open`.        *)
(***************************************************************************)
EXTENDS Integers, Sequences

LOCAL INSTANCE FiniteSetsExt

CONSTANTS
  Targets,        \* the targets of the events
  FileOnly,       \* the targets under file_only_targets
  QueueLines,     \* QUEUE_LINES
  RotationCheck,  \* ROTATION_CHECK, in ticks
  MaxLines,       \* bound: the events that are logged
  MaxFiles,       \* bound: the files that come to be at the path
  EndOfTime       \* bound: the clock stops there

Destinations == {"file", "stdout"}

VARIABLES
  has_file,     \* whether the log was started with a file
  queue,        \* the lines queued for each destination
  dropped,      \* the ErrorCounter of each queue
  refused,      \* the lines each destination did not accept
  written,      \* the lines each destination did
  path, present, moved_at,   \* the files at the path: how many there were,
                             \* whether one is there, when each was moved
  open, misplaced, checked_at,   \* LogFile
  clock,
  logged        \* history: the events of each target so far

vars == <<has_file, queue, dropped, refused, written, path, present, moved_at,
          open, misplaced, checked_at, clock, logged>>

disk == <<path, present, moved_at>>
file == <<open, misplaced, checked_at>>

(* A queue never holds more than its lines.                                *)
TypeOK ==
  /\ \A d \in Destinations : queue[d] \in Seq(Targets) /\ Len(queue[d]) <= QueueLines
  /\ dropped \in [Destinations -> 0..MaxLines]
  /\ refused \in [Destinations -> 0..MaxLines]
  /\ written \in [Destinations -> 0..MaxLines]
  /\ open \in 1..path /\ path \in 1..MaxFiles
  /\ checked_at \in 0..clock
  /\ {has_file, present, misplaced} \subseteq BOOLEAN

(* Log::start: the file is opened, or nothing starts.                      *)
Init ==
  /\ has_file \in BOOLEAN
  /\ queue = [d \in Destinations |-> <<>>]
  /\ dropped = [d \in Destinations |-> 0]
  /\ refused = [d \in Destinations |-> 0]
  /\ written = [d \in Destinations |-> 0]
  /\ path = 1 /\ present = TRUE /\ moved_at = <<EndOfTime>>
  /\ open = 1 /\ misplaced = FALSE /\ checked_at = 0
  /\ clock = 0
  /\ logged = [t \in Targets |-> 0]

-----------------------------------------------------------------------------
(* The layers of the subscriber, and the filter on that of stdout.         *)
GoesTo(target) ==
  {d \in Destinations :
     IF d = "file" THEN has_file ELSE ~ (has_file /\ target \in FileOnly)}

LoggedTo(targets) == MapThenSumSet(LAMBDA t : logged[t], targets)

(* A full queue drops the line, and counts it; whoever logs does not wait. *)
Event(target) ==
  /\ LoggedTo(Targets) < MaxLines
  /\ LET full == {d \in GoesTo(target) : Len(queue[d]) = QueueLines}
     IN /\ queue' = [d \in Destinations |->
                       IF d \in GoesTo(target) \ full
                       THEN Append(queue[d], target) ELSE queue[d]]
        /\ dropped' = [d \in Destinations |->
                         dropped[d] + IF d \in full THEN 1 ELSE 0]
  /\ logged' = [logged EXCEPT ![target] = @ + 1]
  /\ UNCHANGED <<has_file, refused, written, disk, file, clock>>

Due == misplaced \/ clock - checked_at >= RotationCheck

InPlace == present /\ open = path

(* The line at the head of the queue is written, or refused and counted.   *)
Written(d, accepted) ==
  /\ queue[d] # <<>>
  /\ queue' = [queue EXCEPT ![d] = Tail(@)]
  /\ IF accepted THEN written' = [written EXCEPT ![d] = @ + 1] /\ UNCHANGED refused
                 ELSE refused' = [refused EXCEPT ![d] = @ + 1] /\ UNCHANGED written
  /\ UNCHANGED <<has_file, dropped, clock, logged>>

WriteStdout(accepted) ==
  Written("stdout", accepted) /\ UNCHANGED <<disk, file>>

(* A check counted from the last line rather than from the last check.     *)
WriteFileCheckingWhenIdle(accepted) ==
  /\ Written("file", accepted)
  /\ ~ Due \/ (~ misplaced /\ InPlace)
  /\ checked_at' = clock
  /\ UNCHANGED <<disk, open, misplaced>>

(* LogFile::write to the file that is open, after every check it makes.    *)
WriteFile(accepted) ==
  /\ Written("file", accepted)
  /\ ~ Due \/ (~ misplaced /\ InPlace)
  /\ checked_at' = IF Due THEN clock ELSE checked_at
  /\ UNCHANGED <<disk, open, misplaced>>

(* LogFile::write that finds the file gone and opens it at its path,       *)
(* creating it if nothing is there.                                        *)
Reopen(accepted) ==
  /\ Written("file", accepted)
  /\ Due /\ (misplaced \/ ~ InPlace)
  /\ present \/ path < MaxFiles
  /\ checked_at' = clock /\ misplaced' = FALSE
  /\ path' = IF present THEN path ELSE path + 1
  /\ moved_at' = IF present THEN moved_at ELSE Append(moved_at, EndOfTime)
  /\ present' = TRUE
  /\ open' = path'

(* The file cannot be opened, and the line is taken for written.           *)
ReopenFailsQuietly ==
  /\ queue["file"] # <<>>
  /\ queue' = [queue EXCEPT !["file"] = Tail(@)]
  /\ Due /\ (misplaced \/ ~ InPlace)
  /\ checked_at' = clock /\ misplaced' = TRUE
  /\ UNCHANGED <<has_file, dropped, refused, written, clock, logged, disk, open>>

(* The file cannot be opened: the line is refused, and every line tries.   *)
ReopenFails ==
  /\ Written("file", FALSE)
  /\ Due /\ (misplaced \/ ~ InPlace)
  /\ checked_at' = clock /\ misplaced' = TRUE
  /\ UNCHANGED <<disk, open>>

(* Whoever rotates the log renames or removes the file, and may or may not *)
(* put an empty one in its place.                                          *)
RotatedAway(replaced) ==
  /\ present /\ has_file
  /\ replaced => path < MaxFiles
  /\ present' = replaced
  /\ path' = IF replaced THEN path + 1 ELSE path
  /\ moved_at' = LET moved == [moved_at EXCEPT ![path] = clock]
                 IN IF replaced THEN Append(moved, EndOfTime) ELSE moved
  /\ UNCHANGED <<has_file, queue, dropped, refused, written, file, clock, logged>>

Tick ==
  /\ clock < EndOfTime
  /\ clock' = clock + 1
  /\ UNCHANGED <<has_file, queue, dropped, refused, written, disk, file, logged>>

Next ==
  \/ \E t \in Targets : Event(t)
  \/ \E accepted \in BOOLEAN :
       WriteStdout(accepted) \/ WriteFile(accepted) \/ Reopen(accepted)
  \/ ReopenFails
  \/ \E replaced \in BOOLEAN : RotatedAway(replaced)
  \/ Tick

Spec == Init /\ [][Next]_vars

-----------------------------------------------------------------------------
(* lost_lines: a destination's queue, what it was written and what is      *)
(* counted as lost are together every line that was for it: a log with     *)
(* holes in it is known to have them.                                      *)
LostLinesAreCounted ==
  \A d \in Destinations :
    Len(queue[d]) + written[d] + dropped[d] + refused[d]
      = LoggedTo({t \in Targets : d \in GoesTo(t)})

(* LogFile: no line goes into a file that was moved away a RotationCheck   *)
(* before: whatever is logged meanwhile, lines go on at the path.          *)
MovedFileIsLeft ==
  [][written'["file"] > written["file"]
       => moved_at'[open'] > clock - RotationCheck]_vars

=============================================================================
