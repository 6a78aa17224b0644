------------------------------ MODULE KernelView ------------------------------
(***************************************************************************)
(* The kernel's view of the connections (proxy kernel.rs, netkit-kernel    *)
(* linux.rs and its program bpf/tcp_events.bpf.c).                         *)
(*                                                                         *)
(* The kernel keeps a table of the open connections of the cgroup, and     *)
(* puts each that closes into a ring buffer a task reports it from, under  *)
(* the name the listener has by then: a reload may rename it, or remove    *)
(* it.                                                                     *)
(***************************************************************************)
EXTENDS Integers, Sequences, FiniteSets

LOCAL INSTANCE FiniteSetsExt

CONSTANTS
  Clients, Outgoing,   \* connections: accepted on the listener; made to backends
  ListenerNames, NoListener,
  TableSize, RingSize

VARIABLES
  sockets,    \* each connection in the kernel: "none", "established" or "closed"
  listener,   \* the name the listener has, if it is there
  tcp_closes, \* the connections reported of each listener, and of the backends
  table,      \* open_conns
  missed,     \* how many closed without being in it
  ring,       \* closed_conns
  lost,
  reader      \* the reporting task: where it is, what it has decoded, what epoll told it

view == <<sockets, listener, tcp_closes, table, missed, ring, lost, reader>>

Conns == Clients \cup Outgoing

Init ==
  /\ sockets = [c \in Conns |-> "none"]
  /\ listener \in ListenerNames
  /\ tcp_closes = [l \in ListenerNames \cup {"backend"} |-> 0]
  /\ table = {} /\ missed = 0 /\ ring = <<>> /\ lost = 0
  /\ reader = [at |-> "waiting", pending |-> <<>>, ready |-> FALSE, fresh |-> FALSE,
               reported |-> 0]

-----------------------------------------------------------------------------
(* The kernel program: a connection is established, and put into the       *)
(* table, from which a full one drops another.                             *)
Establish(c) ==
  /\ c \in Clients => listener # NoListener
  /\ sockets[c] = "none"
  /\ sockets' = [sockets EXCEPT ![c] = "established"]
  /\ IF Cardinality(table) < TableSize THEN table' = table \cup {c}
     ELSE \E old \in table : table' = (table \ {old}) \cup {c}
  /\ UNCHANGED <<listener, tcp_closes, missed, ring, lost, reader>>

(* bpf_ringbuf_output: a record that finds the reader caught up wakes it.  *)
Output(c) ==
  /\ ring' = Append(ring, c)
  /\ reader' = IF ring = <<>> THEN [reader EXCEPT !.ready = TRUE, !.fresh = TRUE]
               ELSE reader
  /\ UNCHANGED lost

CloseUncounted(c) ==
  /\ sockets[c] = "established"
  /\ sockets' = [sockets EXCEPT ![c] = "closed"]
  /\ IF c \notin table THEN missed' = missed + 1 /\ UNCHANGED <<ring, lost, reader>>
     ELSE IF Len(ring) < RingSize THEN Output(c) /\ UNCHANGED missed
     ELSE UNCHANGED <<ring, lost, reader, missed>>
  /\ table' = table \ {c}
  /\ UNCHANGED <<listener, tcp_closes>>

(* The connection reaches TCP_CLOSE: its ends closed it, or one reset it.  *)
Close(c) ==
  /\ sockets[c] = "established"
  /\ sockets' = [sockets EXCEPT ![c] = "closed"]
  /\ IF c \notin table THEN missed' = missed + 1 /\ UNCHANGED <<ring, lost, reader>>
     ELSE IF Len(ring) < RingSize THEN Output(c) /\ UNCHANGED missed
     ELSE lost' = lost + 1 /\ UNCHANGED <<ring, reader, missed>>
  /\ table' = table \ {c}
  /\ UNCHANGED <<listener, tcp_closes>>

(* A reload gives the address another name, or none.                       *)
Rename(l) ==
  /\ l # listener /\ listener # NoListener
  /\ listener' = l
  /\ UNCHANGED <<sockets, tcp_closes, table, missed, ring, lost, reader>>

-----------------------------------------------------------------------------
(* ClosedConnections::next: readable_mut returns,                          *)
Wake ==
  /\ reader.at = "waiting" /\ reader.ready
  /\ reader' = [reader EXCEPT !.at = "draining", !.fresh = FALSE]
  /\ UNCHANGED <<sockets, listener, tcp_closes, table, missed, ring, lost>>

DrainOne ==
  /\ reader.at = "draining"
  /\ IF ring # <<>> THEN ring' = Tail(ring)
                         /\ reader' = [reader EXCEPT !.pending = Append(@, Head(ring)),
                                                     !.at = "drained"]
     ELSE reader' = [reader EXCEPT !.at = "drained"] /\ UNCHANGED ring
  /\ UNCHANGED <<sockets, listener, tcp_closes, table, missed, lost>>

(* the records there are are decoded one by one,                           *)
Drain ==
  /\ reader.at = "draining"
  /\ IF ring # <<>> THEN ring' = Tail(ring)
                         /\ reader' = [reader EXCEPT !.pending = Append(@, Head(ring))]
     ELSE reader' = [reader EXCEPT !.at = "drained"] /\ UNCHANGED ring
  /\ UNCHANGED <<sockets, listener, tcp_closes, table, missed, lost>>

(* and the readiness is cleared, unless epoll has told it anew since.      *)
ClearReady ==
  /\ reader.at = "drained"
  /\ reader' = [reader EXCEPT !.at = "reporting", !.ready = reader.fresh]
  /\ UNCHANGED <<sockets, listener, tcp_closes, table, missed, ring, lost>>

ReportWhoeverCloses(c) ==
  IF listener # NoListener THEN [tcp_closes EXCEPT ![listener] = @ + 1] ELSE tcp_closes

(* record: a client's is counted under the listener at its address, if     *)
(* there is one; what is accepted elsewhere (ops) is left out likewise.    *)
Recorded(c) ==
  IF c \in Outgoing THEN [tcp_closes EXCEPT !["backend"] = @ + 1]
  ELSE IF listener # NoListener THEN [tcp_closes EXCEPT ![listener] = @ + 1]
  ELSE tcp_closes

(* report: each is recorded, then the task waits again.                    *)
Report ==
  /\ reader.at = "reporting"
  /\ IF reader.pending = <<>> THEN reader' = [reader EXCEPT !.at = "waiting"] /\ UNCHANGED tcp_closes
     ELSE /\ tcp_closes' = Recorded(Head(reader.pending))
          /\ reader' = [reader EXCEPT !.pending = Tail(@), !.reported = @ + 1]
  /\ UNCHANGED <<sockets, listener, table, missed, ring, lost>>

(* stop_kernel_view: the task is aborted once a successor reports.         *)
StopKernelView ==
  /\ reader.at \in {"waiting", "reporting"}
  /\ reader' = [reader EXCEPT !.at = "stopped"]
  /\ UNCHANGED <<sockets, listener, tcp_closes, table, missed, ring, lost>>

Next ==
  \/ \E c \in Conns : Establish(c) \/ Close(c)
  \/ \E l \in ListenerNames \cup {NoListener} : Rename(l)
  \/ Wake \/ Drain \/ ClearReady \/ Report \/ StopKernelView

-----------------------------------------------------------------------------
(* Every connection that closed while it was in the kernel's table is on   *)
(* its way to be reported, was, or is counted as lost: none is lost and    *)
(* none reported twice, whatever the reader is doing (tcp_events, next).   *)
ClosedAreAccounted ==
  Cardinality({c \in Conns : sockets[c] = "closed"}) =
    missed + lost + Len(ring) + Len(reader.pending) + reader.reported

(* The reader never sleeps on records: when it waits without being told to *)
(* wake there is nothing to read (next, clear_ready).                      *)
NothingIsStranded ==
  reader.at = "waiting" /\ ~reader.ready => ring = <<>> /\ reader.pending = <<>>

(* The kernel's view tells clients and backends apart: it counts no more   *)
(* of either than went (report, record).                                   *)
OnlyClientsAreReported ==
  LET Told(l) == tcp_closes[l]
      Gone(conns) == Cardinality({c \in conns : sockets[c] = "closed"})
  IN  /\ MapThenSumSet(Told, ListenerNames) <= Gone(Clients)
      /\ tcp_closes["backend"] <= Gone(Outgoing)

=============================================================================
