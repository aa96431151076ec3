--------------------------- MODULE MemoryGadgets ---------------------------
(***************************************************************************)
(* The memory of a call frame: the vector of bytes that bus-mapping keeps, *)
(* and the gadgets that decompose offsets and lengths, compute the memory  *)
(* expansion and charge for it.  The comparison and division gadgets these *)
(* are built from are taken to be what module Arithmetic checks them to be *)
(*                                                                         *)
(* Words have three bytes instead of 32 and the other widths are scaled so *)
(* that they keep their order: word size of the largest expanded memory <  *)
(* memory address < 64 bits < account address < word.  As in the EVM, no   *)
(* frame can pay for MAX_EXPANDED_MEMORY_ADDRESS bytes of memory.          *)
(***************************************************************************)
EXTENDS EvmOpcodes

WORD            == 3          \* N_BYTES_WORD: 32
WORD_SIZE       == 2^24       \* 2^256
MEMORY_ADDRESS  == 2^16       \* 256^N_BYTES_MEMORY_ADDRESS: 2^40
U64             == 2^20       \* 256^N_BYTES_U64: 2^64
ACCOUNT_ADDRESS == 2^22       \* 256^N_BYTES_ACCOUNT_ADDRESS: 2^160
MAX_EXPANDED_MEMORY_ADDRESS == 32766                        \* 0x1fffffffe0
MEMORY_WORD_SIZE == MAX_EXPANDED_MEMORY_ADDRESS \div WORD + 1   \* 2^32
MAXCODESIZE == 24             \* 0x6000

Least(a, b)    == IF a < b THEN a ELSE b
Greatest(a, b) == IF a < b THEN b ELSE a

to_address(word) == word % ACCOUNT_ADDRESS
to_be_bytes(word) == [i \in 1 .. WORD |-> (word \div 256^(WORD - i)) % 256]
from_be_bytes(bytes) == bytes[1] * 65536 + bytes[2] * 256 + bytes[3]

----------------------------------------------------------------------------
(* Memory: byte i of a memory is memory[i + 1]. *)

read_chunk(memory, offset, length) ==
    [i \in 1 .. length |-> IF offset + i \in DOMAIN memory THEN memory[offset + i] ELSE 0]

extend_at_least(memory, minimal_length) ==
    read_chunk(memory, 0,
        Greatest(Len(memory), ((minimal_length + WORD - 1) \div WORD) * WORD))

WriteBytes(memory, offset, bytes) ==
    [i \in DOMAIN memory |-> IF i - offset \in DOMAIN bytes THEN bytes[i - offset] ELSE memory[i]]

copy_from(memory, dst_offset, src_offset, length, data) ==
    IF length = 0 THEN memory
    ELSE WriteBytes(extend_at_least(memory, dst_offset + length), dst_offset,
                    read_chunk(data, Least(src_offset, U64 - 1), length))

----------------------------------------------------------------------------
(* WordByteRangeGadget and WordByteCapGadget over 64 bits *)

not_overflow(word) == word < U64
valid_value(word)  == word % U64
lt_cap(word, cap)  == not_overflow(word) /\ valid_value(word) < cap

----------------------------------------------------------------------------
(* MemoryAddressGadget *)

MemoryAddress(offset, length) ==
    length < MEMORY_ADDRESS /\ (length # 0 => offset < MEMORY_ADDRESS)
memory_offset(offset, length)  == IF length = 0 THEN 0 ELSE offset
memory_address(offset, length) == memory_offset(offset, length) + length

(* MemoryExpandedAddressGadget *)
within_range(offset, length) ==
    LET sum == (offset + length) % WORD_SIZE
        carry == offset + length >= WORD_SIZE
    IN  length = 0 \/ (sum % U64 < MAX_EXPANDED_MEMORY_ADDRESS + 1 /\ sum < U64 /\ ~carry)
expanded_length(offset, length)  == IF within_range(offset, length) THEN length % U64 ELSE 0
expanded_address(offset, length) ==
    IF length # 0 /\ within_range(offset, length) THEN offset + length ELSE 0

MemoryWordSize(address) == (address + WORD - 1) \div WORD

(* MemoryExpansionGadget, for the current word size and a set of addresses. *)
next_memory_word_size(curr, addresses) ==
    LET sizes == {curr} \union {MemoryWordSize(a) : a \in addresses}
    IN  CHOOSE size \in sizes : \A other \in sizes : other <= size
MemoryExpansion(curr, addresses) == next_memory_word_size(curr, addresses) < MEMORY_WORD_SIZE

QuadMemoryCost(size) == (size * size) \div GasCost.MEMORY_EXPANSION_QUAD_DENOMINATOR
memory_expansion_gas_cost(curr, next) ==
    GasCost.MEMORY_EXPANSION_LINEAR_COEFF * (next - curr)
        + QuadMemoryCost(next) - QuadMemoryCost(curr)
expansion_gas(curr, addresses) ==
    memory_expansion_gas_cost(curr, next_memory_word_size(curr, addresses))

(* MemoryCopierGasGadget *)
memory_copier_gas(gas_copy, num_bytes, memory_expansion_gas) ==
    MemoryWordSize(num_bytes) * gas_copy + memory_expansion_gas

(* BufferReaderGadget: selectors and bytes of a buffer of WORD bytes. *)
BufferReader(addr_start, addr_end, selectors, bytes) ==
    LET signed_len == addr_end - addr_start
        ones == Cardinality({i \in 1 .. WORD : selectors[i] = 1})
    IN  /\ \A i \in 2 .. WORD : selectors[i] <= selectors[i - 1]
        /\ \A i \in 1 .. WORD : selectors[i] = 0 => bytes[i] = 0
        /\ IF selectors[1] = 0 THEN signed_len <= 0
           ELSE ones = Least(WORD, signed_len)
=============================================================================
