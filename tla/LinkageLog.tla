------------------------------ MODULE LinkageLog ------------------------------
(***************************************************************************)
(* linkage_log.c: records with a header are put into the buffers of        *)
(* linkageasynclog.c, and do_linkageasynclog handles the records of one    *)
(* buffer (AsyncProc.tla models when a buffer gets there).  Its loop       *)
(* counts down what remains of the buffer and leaves hdr where it is.      *)
(***************************************************************************)
EXTENDS Naturals, Sequences

CONSTANTS HeaderLen,  \* sizeof(linkage_log_header_t)
          PayloadLens,\* of the records, at least 1 as that of log_adddev_t
          Commands,   \* of ds_command: "ADDDEV" and others, which no function handles
          MaxSent     \* records of the buffer

VARIABLES sent,       \* the records of the buffer, in order
          remain,     \* of do_linkageasynclog
          loop,       \* "no" before it is called, "on", "over"
          seen        \* history: the places of the records that it went through

vars == <<sent, remain, loop, seen>>

Total(s) ==
  LET t[k \in 0 .. Len(s)] == IF k = 0 THEN 0 ELSE t[k - 1] + HeaderLen + s[k].len IN t[Len(s)]

Init == sent = <<>> /\ remain = 0 /\ loop = "no" /\ seen = <<>>

log_header_set(cmd, len) == [ds_command |-> cmd, len |-> len]

linkagelog_send(cmd, len) ==
  /\ loop = "no" /\ Len(sent) < MaxSent
  /\ sent' = Append(sent, log_header_set(cmd, len))
  /\ UNCHANGED <<remain, loop, seen>>

\* The thread has the buffer; one that nothing was put into is handled like any other.
Begin ==
  /\ loop = "no"
  /\ loop' = "on" /\ remain' = Total(sent)
  /\ UNCHANGED <<sent, seen>>

\* hdr, which stays at the start of the data
hdr == 1

\* do_linkagelog_proc: the function of the command, if there is one
do_linkagelog(h) == seen' = IF sent[h].ds_command = "ADDDEV" THEN Append(seen, h) ELSE seen

\* One turn of the loop
do_linkageasynclog ==
  /\ loop = "on"
  /\ IF remain > HeaderLen /\ sent[hdr].len <= remain - HeaderLen
     THEN /\ remain' = remain - HeaderLen - sent[hdr].len
          /\ do_linkagelog(hdr)
          /\ UNCHANGED loop
     ELSE loop' = "over" /\ UNCHANGED <<remain, seen>>
  /\ UNCHANGED sent

Next ==
  \/ \E cmd \in Commands, len \in PayloadLens : linkagelog_send(cmd, len)
  \/ Begin \/ do_linkageasynclog

Spec == Init /\ [][Next]_vars

------------------------------------------------------------------------------
\* The loop takes no header and no payload from behind the data, and ends.  When all
\* records have the length of the first, it makes as many turns as there are records,
\* and none is left; a buffer with one record is handled rightly.  More cannot be said:
\* with several, it is the first one that is handled each time.
RecordsCounted ==
  /\ remain <= Total(sent)
  /\ loop = "over" =>
       /\ sent = <<>> => seen = <<>>
       /\ (sent # <<>> /\ \A k \in DOMAIN sent : sent[k].len = sent[1].len) =>
            /\ remain = 0
            /\ Len(seen) = IF sent[1].ds_command = "ADDDEV" THEN Len(sent) ELSE 0
       /\ Len(sent) = 1 /\ sent[1].ds_command = "ADDDEV" => seen = <<1>>
==============================================================================
