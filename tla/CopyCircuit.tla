----------------------------- MODULE CopyCircuit -----------------------------
(***************************************************************************)
(* The copy circuit: copy events of bus-mapping, the rows they are         *)
(* assigned to (a read row and a write row per byte), the gates and        *)
(* lookups of a row, and the copy table the execution gadgets look up in.  *)
(* A random linear combination of bytes is the sequence of the bytes       *)
(* without its leading zeros.  An event has src_type, src_id, src_addr,    *)
(* src_addr_end, dst_type, dst_id, dst_addr, rw_counter_start and bytes,   *)
(* pairs of a byte and is_code.                                            *)
(***************************************************************************)
EXTENDS RwLookups, BytecodeCircuit, MemoryGadgets

(* acc * r + value *)
Accumulate(acc, value) == IF acc = <<>> /\ value = 0 THEN <<>> ELSE Append(acc, value)

RlcOf(bytes) ==
    LET zeros == {i \in DOMAIN bytes : \A j \in 1 .. i : bytes[j] = 0}
    IN  SubSeq(bytes, Cardinality(zeros) + 1, Len(bytes))

----------------------------------------------------------------------------
(* CopyEvent *)

\* Mutant: a source that ends before the copy does is counted as read to the end.
rw_counter_increase_NoEnd(e, step_index) ==
    (IF e.src_type = "Memory" THEN (step_index + 1) \div 2 ELSE 0)
    + IF e.dst_type = "Memory" THEN step_index \div 2 ELSE 0

rw_counter_increase(e, step_index) ==
    (IF e.src_type = "Memory"
     THEN Least((step_index + 1) \div 2,
                  IF e.src_addr_end >= e.src_addr THEN e.src_addr_end - e.src_addr ELSE 0)
     ELSE 0)
    + IF e.dst_type = "Memory" THEN step_index \div 2 ELSE 0

rw_counter_delta(e) == rw_counter_increase(e, 2 * Len(e.bytes))

----------------------------------------------------------------------------
(* CopyTable::assignments and assign_copy_event: row step_idx of an event. *)

EventRow(e, step_idx) ==
    LET read == step_idx % 2 = 0
        position == step_idx \div 2
        byte == e.bytes[position + 1]
        values(n) == [i \in 1 .. n |-> e.bytes[i][1]]
        addr == (IF read THEN e.src_addr ELSE e.dst_addr) + position
        tag == IF read THEN e.src_type ELSE e.dst_type
        total == rw_counter_delta(e)
    IN  [tag |-> tag, is_first |-> Bit(step_idx = 0),
         id |-> IF read THEN e.src_id ELSE e.dst_id, addr |-> addr,
         src_addr_end |-> IF read THEN e.src_addr_end ELSE 0,
         bytes_left |-> IF read THEN Len(e.bytes) - position ELSE 0,
         rlc_acc |-> IF e.dst_type = "RlcAcc" THEN RlcOf(values(Len(e.bytes))) ELSE <<>>,
         rw_counter |-> e.rw_counter_start + rw_counter_increase(e, step_idx),
         rwc_inc_left |-> total - rw_counter_increase(e, step_idx),
         is_last |-> Bit(step_idx = 2 * Len(e.bytes) - 1),
         value |-> byte[1], value_acc |-> RlcOf(values(position + 1)),
         is_pad |-> Bit(read /\ addr >= e.src_addr_end),
         is_code |-> IF tag = "Bytecode" THEN byte[2] ELSE 0,
         q_step |-> Bit(read), q_enable |-> 1]

PaddingRow(offset, enabled) ==
    [tag |-> "Padding", is_first |-> 0, id |-> 0, addr |-> 0, src_addr_end |-> 1,
     bytes_left |-> 0, rlc_acc |-> <<>>, rw_counter |-> 0, rwc_inc_left |-> 0, is_last |-> 0,
     value |-> 0, value_acc |-> <<>>, is_pad |-> 0, is_code |-> 0,
     q_step |-> Bit(enabled /\ offset % 2 = 0), q_enable |-> Bit(enabled)]

DISABLED_ROWS == 2
UNUSED_ROWS == 2

(* assign_copy_events: the rows of all events, padded to max_copy_rows. *)
EventRows(events) ==
    LET rows[i \in 0 .. Len(events)] ==
            IF i = 0 THEN <<>>
            ELSE rows[i - 1] \o [j \in 1 .. 2 * Len(events[i].bytes) |-> EventRow(events[i], j - 1)]
    IN  rows[Len(events)]
CopyRowsFit(events, max_copy_rows) ==
    Len(EventRows(events)) + DISABLED_ROWS + UNUSED_ROWS <= max_copy_rows
AssignCopyEvents(events, max_copy_rows) ==
    LET rows == EventRows(events)
    IN  rows \o [i \in 1 .. max_copy_rows - Len(rows) |->
                   PaddingRow(Len(rows) + i - 1, Len(rows) + i <= max_copy_rows - DISABLED_ROWS)]

----------------------------------------------------------------------------
(* Gates *)

rw_diff(row) == Bit(row.tag \in {"Memory", "TxLog"} /\ row.is_pad = 0)

VerifyRow(row, next, next2) ==
    /\ row.q_step = 0 => row.is_first = 0
    /\ row.q_step = 1 => row.is_last = 0
    /\ row.tag # "Padding" => next2.q_enable = 1
    /\ row.is_last = 0 /\ next.is_last = 0 /\ row.tag # "Padding" =>
           /\ next2.id = row.id /\ next2.tag = row.tag
           /\ next2.addr = row.addr + 1 /\ next2.src_addr_end = row.src_addr_end
    /\ IF row.is_last = 0
       THEN /\ next.rw_counter = row.rw_counter + rw_diff(row)
            /\ next.rwc_inc_left + rw_diff(row) = row.rwc_inc_left
            /\ next.rlc_acc = row.rlc_acc
       ELSE row.rwc_inc_left = rw_diff(row)

(* "Last Step (check value accumulator)" *)
LastStep(row, next) ==
    next.is_last = 1 /\ ((row.tag = "Memory" /\ next.tag = "Bytecode") \/ next.tag = "RlcAcc") =>
        next.value_acc = next.rlc_acc

VerifyStep(row, next, next2) ==
    row.q_step = 1 =>
        /\ next.is_last = 1 => row.bytes_left = 1
        /\ next.is_last = 0 /\ row.tag # "Padding" => row.bytes_left = next2.bytes_left + 1
        /\ row.is_first = 1 => row.value_acc = Accumulate(<<>>, row.value)
        /\ next.value = row.value /\ next.value_acc = row.value_acc
        /\ next.is_last = 0 /\ row.is_pad = 0 =>
               next2.value_acc = Accumulate(row.value_acc, next2.value)
        /\ row.is_pad = 1 => row.value = 0
        /\ row.is_pad = Bit(~(row.addr < row.src_addr_end))
        /\ next.is_pad = 0

(* The lookups of a row into the rw, bytecode and tx tables of the witness W. *)
CopyLookups(W, row) ==
    LET used == row.is_pad = 0 IN
    /\ row.tag = "Memory" /\ used =>
           OpAt(W, row.rw_counter) =
               MemoryOp(IF row.q_step = 1 THEN "R" ELSE "W", row.id, row.addr, row.value)
    /\ row.tag = "Bytecode" /\ used =>
           BytecodeLookup(W.codes, row.id, row.addr, row.is_code, row.value)
    /\ row.tag = "TxCalldata" /\ used =>
           row.id = W.tx_id /\ row.addr < Len(W.tx_data) /\ W.tx_data[row.addr + 1] = row.value

CopyCircuitAccepts(W, rows) ==
    \A i \in DOMAIN rows :
        rows[i].q_enable = 1 =>
            LET row == rows[i]
                next == rows[i + 1]
                next2 == rows[IF i + 2 <= Len(rows) THEN i + 2 ELSE i + 1]
            IN  /\ VerifyRow(row, next, next2) /\ LastStep(row, next)
                /\ VerifyStep(row, next, next2) /\ CopyLookups(W, row)

(* The copy table as copy_table_lookup sees it: the read row of a first byte and the row
   below it. *)
copy_table_lookup(rows, src, dst, length, rlc_acc, rw_counter, rwc_inc) ==
    \E i \in 1 .. Len(rows) - 1 :
        LET row == rows[i]
            next == rows[i + 1]
        IN  /\ row.q_step = 1 /\ row.is_first = 1
            /\ row.id = src.id /\ row.tag = src.tag /\ next.id = dst.id /\ next.tag = dst.tag
            /\ row.addr = src.addr /\ row.src_addr_end = src.end /\ next.addr = dst.addr
            /\ row.bytes_left = length /\ row.rlc_acc = rlc_acc
            /\ row.rw_counter = rw_counter /\ row.rwc_inc_left = rwc_inc
=============================================================================
