--------------------------- MODULE BytecodeCircuit ---------------------------
(***************************************************************************)
(* The bytecode circuit: the rows in which the codes of a block are        *)
(* unrolled, its gates, and the bytecode table other circuits look up in.  *)
(* A random linear combination of bytes is the sequence of the bytes.  The *)
(* keccak table is external: a set of <<bytes, length, hash>>.             *)
(***************************************************************************)
EXTENDS EvmOpcodes

EMPTY_CODE_HASH == 1

\* Mutant: the last byte of the data of a PUSH is taken for code.
code_vec_ShortData(bytes) ==
    LET left[i \in 0 .. Len(bytes)] ==
            IF i = 0 THEN 0
            ELSE IF left[i - 1] = 0
                 THEN LET n == data_len(OpcodeFrom(bytes[i])) IN IF n > 0 THEN n - 1 ELSE 0
                 ELSE left[i - 1] - 1
    IN  [i \in DOMAIN bytes |-> <<bytes[i], IF left[i - 1] = 0 THEN 1 ELSE 0>>]

(* Bytecode::from(Vec<u8>): every byte with is_code; left[i] data bytes are expected after
   the first i bytes. *)
code_vec(bytes) ==
    LET left[i \in 0 .. Len(bytes)] ==
            IF i = 0 THEN 0
            ELSE IF left[i - 1] = 0 THEN data_len(OpcodeFrom(bytes[i])) ELSE left[i - 1] - 1
    IN  [i \in DOMAIN bytes |-> <<bytes[i], IF left[i - 1] = 0 THEN 1 ELSE 0>>]

----------------------------------------------------------------------------
(* Assignment *)

Header(code_hash, code_size) ==
    [code_hash |-> code_hash, tag |-> "Header", index |-> 0, is_code |-> 0, value |-> code_size,
     push_data_left |-> 0, value_rlc |-> <<>>, length |-> code_size, push_data_size |-> 0]

pad == Header(EMPTY_CODE_HASH, 0)

(* BytecodeCircuitAssignment::from, for one code. *)
CodeRows(code_hash, bytes) ==
    LET code == code_vec(bytes)
        left[i \in 1 .. Len(bytes)] ==
            IF i = 1 THEN 0
            ELSE IF code[i - 1][2] = 1 THEN data_len(OpcodeFrom(code[i - 1][1])) ELSE left[i - 1] - 1
    IN  << Header(code_hash, Len(bytes)) >>
        \o [i \in DOMAIN bytes |->
              [code_hash |-> code_hash, tag |-> "Byte", index |-> i - 1, is_code |-> code[i][2],
               value |-> code[i][1], push_data_left |-> left[i],
               value_rlc |-> SubSeq(bytes, 1, i), length |-> Len(bytes),
               push_data_size |-> data_len(OpcodeFrom(code[i][1]))]]

(* assign_internal: rows 0 .. last_row_offset, the last of them a padding row. *)
AssignInternal(witness, last_row_offset) ==
    [i \in 1 .. last_row_offset + 1 |->
       IF i \in DOMAIN witness /\ i <= last_row_offset THEN witness[i] ELSE pad]

(* The bytecode table: Byte rows of a code, and its length in the Header row. *)
BytecodeLookup(codes, code_hash, index, is_code, value) ==
    /\ code_hash \in DOMAIN codes
    /\ index \in 0 .. Len(codes[code_hash]) - 1
    /\ code_vec(codes[code_hash])[index + 1] = <<value, is_code>>
BytecodeLength(codes, code_hash, value) ==
    code_hash \in DOMAIN codes /\ value = Len(codes[code_hash])

----------------------------------------------------------------------------
(* Gates; `first' and `last' are the selectors of the row. *)

HeaderRow(cur) == cur.tag = "Header" => cur.index = 0 /\ cur.value = cur.length

ByteRowGate(cur) ==
    cur.tag = "Byte" =>
        /\ cur.is_code = IF cur.push_data_left = 0 THEN 1 ELSE 0
        /\ cur.value \in Bytes /\ cur.push_data_size = data_len(OpcodeFrom(cur.value))

EmptyCode(cur) == cur.length = 0 /\ cur.code_hash = EMPTY_CODE_HASH

HeaderToByte(cur, next) ==
    /\ next.length = cur.length /\ next.index = 0 /\ next.is_code = 1
    /\ next.code_hash = cur.code_hash /\ next.value_rlc = << next.value >>

ByteToByte(cur, next) ==
    /\ next.length = cur.length /\ next.index = cur.index + 1
    /\ next.code_hash = cur.code_hash
    /\ next.value_rlc = Append(cur.value_rlc, next.value)
    /\ next.push_data_left =
           IF cur.is_code = 1 THEN cur.push_data_size ELSE cur.push_data_left - 1

ByteToHeader(cur, keccak_table) ==
    cur.index + 1 = cur.length /\ <<cur.value_rlc, cur.length, cur.code_hash>> \in keccak_table

BytecodeRowGates(rows, i, keccak_table) ==
    LET cur == rows[i]
        last == i = Len(rows)
        next == rows[IF last THEN i ELSE i + 1]
    IN  /\ i = 1 \/ last => cur.tag = "Header"
        /\ last => EmptyCode(cur)
        /\ ~last =>
             /\ HeaderRow(cur) /\ ByteRowGate(cur)
             /\ cur.tag = "Header" /\ next.tag = "Header" => EmptyCode(cur)
             /\ cur.tag = "Header" /\ next.tag = "Byte" => HeaderToByte(cur, next)
             /\ cur.tag = "Byte" /\ next.tag = "Byte" => ByteToByte(cur, next)
             /\ cur.tag = "Byte" /\ cur.index + 1 = cur.length => next.tag = "Header"
             /\ cur.tag = "Byte" /\ next.tag = "Header" => ByteToHeader(cur, keccak_table)

BytecodeCircuitAccepts(rows, keccak_table) ==
    \A i \in DOMAIN rows : BytecodeRowGates(rows, i, keccak_table)
=============================================================================
