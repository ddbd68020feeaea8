----------------------------- MODULE TraceAdapter -----------------------------
(* The lines of an input, as the record readers and the trace reader of      *)
(* s3tap analyze each take them. A line is a record, another JSON object, a  *)
(* trace line of another format, or nothing that can be read:                *)
(*   "record"   a record of a known schema      "broken"  one that has lost  *)
(*   "alien"    a schema of no known version              a field            *)
(*   "raw"      a tagless trace event           "ibm"     an IBM COS line    *)
(*   "junk"     not JSON, or not an object      "blank"                      *)
(*   "long"     over the length cap             "binary"  not UTF-8          *)
EXTENDS Records

(* No record says which bytes of its object it read; a raw event may.       *)
Event(op, o) == [op |-> op, object |-> <<o.bucket, o.key>>, ts |-> o.ts,
                 size |-> o.len, status |-> o.status, extent |-> None]

op_kind(o) ==
    LET name == IF o.cls = None THEN o.verb ELSE o.cls[1]
    IN  CASE name \in {"GetObject", "GET"}  -> "Get"
          [] name \in {"HeadObject", "HEAD"} -> "Head"
          [] name \in {"PutObject", "UploadPart", "CreateMultipartUpload",
                       "CompleteMultipartUpload", "CopyObject", "PUT"} -> "Put"
          [] name \in {"DeleteObject", "DeleteObjects",
                       "AbortMultipartUpload", "DELETE"} -> "Delete"
          [] OTHER -> "Other"

(* A read the origin served no whole body for is not a demand read.         *)
demand_op(o) ==
    CASE op_kind(o) # "Get"                     -> op_kind(o)
      [] op_kind(o) = "Get" /\ o.status = 200   -> "Get"
      [] op_kind(o) = "Get" /\ o.status = 206   -> "Other"
      [] OTHER                                  -> None

from_record(o) ==
    IF o.bucket = None \/ o.key = None \/ o.ts = None \/ demand_op(o) = None
    THEN None ELSE Event(demand_op(o), o)
from_records(ops) == FilterMap(from_record, ops)

(* What the record readers make of a line.                                  *)
Nothing == [records |-> <<>>, bad |-> 0, unknown |-> 0]
parse_records(line) ==
    CASE line.form = "record" -> [Nothing EXCEPT !.records = <<line.rec>>]
      [] line.form \in {"broken", "junk", "ibm"} -> [Nothing EXCEPT !.bad = 1]
      [] line.form \in {"alien", "raw"} -> [Nothing EXCEPT !.unknown = 1]
      [] line.form = "blank" -> Nothing

(* What analyze makes of it: a tagged line is routed by its tag alone, and  *)
(* of a connection or a sample nothing else is read.                        *)
NoEvent == [events |-> <<>>, skipped |-> 0, dropped |-> 0, other |-> 0]
Skipped == [NoEvent EXCEPT !.skipped = 1]
OperationDropped == [Skipped EXCEPT !.dropped = 1]
OtherRecord      == [Skipped EXCEPT !.other = 1]
Loaded(ev)       == [NoEvent EXCEPT !.events = <<ev>>]
Merge(a, b) ==
    [f \in DOMAIN a |-> IF f \in {"records", "events"} THEN a[f] \o b[f]
                        ELSE a[f] + b[f]]

classify_trace_line(line) ==
    LET tagged == line.form \in {"record", "broken"}
        op     == tagged /\ line.rec.kind = "op"
        event  == from_record(line.rec)
    IN  CASE line.form = "blank" -> NoEvent
          [] line.form \in {"raw", "ibm"} -> Loaded(line.event)
          [] tagged /\ ~op -> OtherRecord
          [] op /\ line.rec.partial -> OperationDropped
          [] op /\ ~line.rec.partial /\ line.form = "broken" -> Skipped
          [] op /\ ~line.rec.partial /\ line.form = "record" ->
               IF event = None THEN OperationDropped ELSE Loaded(event)
          [] OTHER -> Skipped

(* The whole of an input.                                                   *)
load_trace(lines) ==
    FoldLeft(LAMBDA acc, l : Merge(acc, classify_trace_line(l)), NoEvent, lines)
=============================================================================
