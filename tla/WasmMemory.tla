----------------------------- MODULE WasmMemory -----------------------------
(***************************************************************************)
(* One call into a zome: the linear memory that the ribosome (the host)    *)
(* and the zome's WASM code (the guest, built with the HDK) share, the     *)
(* 64 bit values they pass each other, and the protocol of run_dna, of a   *)
(* function made by define_zome!, and of Dispatch::with_input.             *)
(*                                                                         *)
(* The memory has two independent stack pointers.  The host's              *)
(* WasmPageManager starts at 0, takes the input of the call, and then      *)
(* every result it stores, which it never frees.  The HDK's G_MEM_STACK    *)
(* starts where the input ends; WasmStack is Copy, so every with_input and *)
(* every write_json works on a copy of it.  Both therefore write to the    *)
(* same addresses, at different times.                                     *)
(*                                                                         *)
(* A byte is <<m, i>>, the i-th byte of message m, or Nul.  Machine words  *)
(* have W bits where the code has 32, and 2W where it has 64.  The zome's  *)
(* own data and shadow stack lie above MemSize and are left out.           *)
(***************************************************************************)
EXTENDS Naturals, FiniteSets, SequencesExt

CONSTANTS W,        \* bits of MemoryInt (32 in the code)
          MemSize,  \* bytes of linear memory the two stacks may use
          MaxLen,   \* bound: bytes of one message
          MaxApi    \* bound: API calls of one zome call

VARIABLES mem,      \* the linear memory
          host,     \* top of the stack of the WasmPageManager
          guest,    \* top of G_MEM_STACK, a set of at most one number
          pc,       \* who runs: "run_dna", "entry", "zome", "host", "back",
                    \* "api", "exit", "returned", "done" (failed or
                    \* trapped) or "panic" (the host thread died)
          enc,      \* the 64 bit value that was passed last
          local,    \* the HDK's copy of its stack and its argument
          sent,     \* what the writer of the current message meant
          heard,    \* what its reader made of it
          writes,   \* messages written
          apis      \* API calls made

vars == <<mem, host, guest, pc, enc, local, sent, heard, writes, apis>>

Nul == <<0, 0>>

MEMORY_INT_MAX == 2 ^ W - 1

Address == 0 .. MemSize - 1

-----------------------------------------------------------------------------
(* The 64 bit encoding. *)

u64_merge_bits(high, low) == (high * 2 ^ W) + low

u64_split_bits(i) == <<(i \div 2 ^ W) % 2 ^ W, i % 2 ^ W>>

(* RibosomeErrorCode, by the number that is shifted into the high half. *)
Unspecified                   == 1
ArgumentDeserializationFailed == 2
OutOfMemory                   == 3
CallbackFailed                == 5
RecursiveCallForbidden        == 6
NotAnAllocation               == 8
ZeroSizedAllocation           == 9
UnknownEntryType              == 10
EntryNotFound                 == 12
WorkflowFailed                == 13

Success == [kind |-> "success", high |-> 0, low |-> 0]

Failure(code) == [kind |-> "failure", high |-> code, low |-> 0]

Allocation(offset, length) ==
  [kind |-> "allocation", high |-> offset, low |-> length]

from_code_int(code) ==
  IF code \in (2 .. 10) \cup {12, 13} THEN code ELSE Unspecified

RibosomeEncodingBits(value) == u64_merge_bits(value.high, value.low)

RibosomeEncodedValue(i) ==
  LET halves == u64_split_bits(i)
  IN  IF i = 0
        THEN Success
        ELSE IF halves[2] = 0
               THEN Failure(from_code_int(halves[1]))
               ELSE Allocation(halves[1], halves[2])

-----------------------------------------------------------------------------
(* Allocations: a value is an allocation, or the code of an error. *)

IsErr(result) == result.kind = "failure"

WasmAllocation(offset, length) ==
  IF offset + length > MEMORY_INT_MAX
    THEN Failure(OutOfMemory)
    ELSE IF length = 0 THEN Failure(ZeroSizedAllocation)
                       ELSE Allocation(offset, length)

(* The stack with the given top takes or gives back an allocation; the     *)
(* answer is the new top, or the error.                                    *)
allocate(top, allocation) ==
  IF top # allocation.high
    THEN Failure(NotAnAllocation)
    ELSE IF top + allocation.low > MEMORY_INT_MAX
           THEN Failure(OutOfMemory)
           ELSE [kind |-> "top", high |-> top + allocation.low, low |-> 0]

deallocate(top, allocation) ==
  IF top # allocation.high + allocation.low
    THEN Failure(NotAnAllocation)
    ELSE [kind |-> "top", high |-> allocation.high, low |-> 0]

try_from_ribosome_encoding(i) ==
  LET value == RibosomeEncodedValue(i)
  IN  CASE value.kind = "success"    -> Failure(ZeroSizedAllocation)
        [] value.kind = "failure"    -> Failure(OutOfMemory)
        [] value.kind = "allocation" -> WasmAllocation(value.high, value.low)

(* The stack of which the allocation is the topmost one. *)
try_from_allocation(allocation) == allocate(allocation.high, allocation)

-----------------------------------------------------------------------------
(* Reading and writing. *)

Message(m, length) == [i \in 1 .. length |-> <<m, i>>]

Fits(allocation) == allocation.high + allocation.low <= MemSize

Stored(memory, allocation, bytes) ==
  [a \in Address |->
     IF a \in allocation.high .. allocation.high + allocation.low - 1
       THEN bytes[a - allocation.high + 1]
       ELSE memory[a]]

(* The host reads as many bytes as the allocation says. *)
read(memory, allocation) ==
  [i \in 1 .. allocation.low |-> memory[allocation.high + i - 1]]

(* The guest reads a C string: up to the first Nul, whatever the length    *)
(* of the allocation.  Memory above MemSize is not modelled; a string that *)
(* runs that far is cut.                                                   *)
read_to_string(memory, allocation) ==
  LET ends == {a \in allocation.high .. MemSize - 1 : memory[a] = Nul}
      stop == IF ends = {} THEN MemSize
                           ELSE CHOOSE a \in ends : \A b \in ends : a <= b
  IN  [i \in 1 .. stop - allocation.high |-> memory[allocation.high + i - 1]]

(* What load_ribosome_encoded_string makes of an encoded value. *)
load_ribosome_encoded_string(memory, i) ==
  LET value == RibosomeEncodedValue(i)
  IN  CASE value.kind = "success" ->
             [code |-> ZeroSizedAllocation, text |-> <<>>]
        [] value.kind = "failure" -> [code |-> value.high, text |-> <<>>]
        [] value.kind = "allocation" ->
             [code |-> 0, text |-> read_to_string(memory, value)]

return_code_for_allocation_result(result) == RibosomeEncodingBits(result)

Text(bytes) == [code |-> 0, text |-> bytes]
Code(code) == [code |-> code, text |-> <<>>]

-----------------------------------------------------------------------------
NoLocal == [top |-> 0, arg |-> Success]

Init ==
  /\ mem = [a \in Address |-> Nul]
  /\ host = 0
  /\ guest = {}
  /\ pc = "run_dna"
  /\ enc = 0
  /\ local = NoLocal
  /\ sent = Code(0)
  /\ heard = Code(0)
  /\ writes = 0
  /\ apis = 0

(* WasmPageManager::write of a message that could be allocated: the copy   *)
(* panics (expect) when the linear memory ends before the message does.    *)
HostWrites(allocation, message, bytes, next) ==
  /\ host' = allocate(host, allocation).high
  /\ writes' = writes + 1
  /\ sent' = Text(message)
  /\ IF Fits(allocation)
       THEN /\ mem' = Stored(mem, allocation, bytes)
            /\ enc' = RibosomeEncodingBits(allocation)
            /\ pc' = next
       ELSE /\ pc' = "panic"
            /\ UNCHANGED <<mem, enc>>

(* run_dna writes the parameters, without a terminator, into the memory of *)
(* a fresh instance and invokes the export.                                *)
RunDna(length) ==
  LET allocation == WasmAllocation(host, length)
  IN  /\ pc = "run_dna"
      /\ \/ /\ ~IsErr(allocation)
            /\ HostWrites(allocation, Message(writes + 1, length),
                          Message(writes + 1, length), "entry")
         \/ /\ IsErr(allocation)
            /\ pc' = IF allocation.high = ZeroSizedAllocation
                       THEN "entry" ELSE "done"
            /\ enc' = RibosomeEncodingBits(Success)
            /\ UNCHANGED <<mem, host, sent, writes>>
      /\ UNCHANGED <<guest, local, heard, apis>>

(* The HDK's write_json on a copy of its stack; a store past the end of    *)
(* the memory traps.                                                       *)
GuestWrites(allocation, bytes, next) ==
  /\ writes' = writes + 1
  /\ sent' = Text(bytes)
  /\ IF Fits(allocation)
       THEN /\ mem' = Stored(mem, allocation, bytes)
            /\ enc' = RibosomeEncodingBits(allocation)
            /\ pc' = next
       ELSE /\ pc' = "done"
            /\ UNCHANGED <<mem, enc>>

(* write_json as the last thing a zome function does: the value, or the    *)
(* code of the error that writing it met, is what the function returns.    *)
Returns(length) ==
  LET allocation == WasmAllocation(CHOOSE top \in guest : TRUE, length)
  IN  \/ /\ ~IsErr(allocation)
         /\ GuestWrites(allocation, Message(writes + 1, length), "exit")
      \/ /\ IsErr(allocation)
         /\ enc' = return_code_for_allocation_result(allocation)
         /\ pc' = "exit"
         /\ sent' = Code(allocation.high)
         /\ UNCHANGED <<mem, writes>>

(* The prologue that define_zome! gives a function, up to load_json!.      *)
Enter ==
  LET allocation == try_from_ribosome_encoding(enc)
      top == try_from_allocation(allocation)
      failed == IF IsErr(allocation) THEN allocation ELSE top
  IN  /\ pc = "entry"
      /\ \/ /\ IsErr(failed)
            /\ enc' = RibosomeEncodingBits(failed)
            /\ sent' = Code(failed.high)
            /\ pc' = "exit"
            /\ UNCHANGED <<guest, heard>>
         \/ /\ ~IsErr(failed)
            /\ guest' = {top.high}
            /\ heard' = load_ribosome_encoded_string(mem, enc)
            /\ pc' = "zome"
            /\ UNCHANGED <<enc, sent>>
      /\ UNCHANGED <<mem, host, local, writes, apis>>

(* Dispatch::with_input, up to the call of the host's function. *)
Dispatch(length) ==
  LET top == CHOOSE t \in guest : TRUE
      allocation == WasmAllocation(top, length)
  IN  /\ pc = "zome"
      /\ apis < MaxApi
      /\ apis' = apis + 1
      /\ \/ /\ ~IsErr(allocation)
            /\ local' = [top |-> allocate(top, allocation).high,
                         arg |-> allocation]
            /\ GuestWrites(allocation, Message(writes + 1, length), "host")
            /\ UNCHANGED heard
         \/ /\ IsErr(allocation)
            /\ sent' = Code(allocation.high)
            /\ heard' = Code(allocation.high)
            /\ UNCHANGED <<mem, pc, enc, local, writes>>
      /\ UNCHANGED <<host, guest>>

(* invoke_index: the host's function loads its argument.  Loading an error *)
(* code instead of an allocation would panic.                              *)
LoadArgs ==
  /\ pc = "host"
  /\ heard' = LET value == RibosomeEncodedValue(enc)
              IN  Text(read(mem, value))
  /\ pc' = "api"
  /\ UNCHANGED <<mem, host, guest, enc, local, sent, writes, apis>>

(* A result stored without its terminator. *)
StoreUnterminated(length) ==
  LET message == Message(writes + 1, length)
      allocation == WasmAllocation(host, length)
  IN  /\ pc = "api"
      /\ ~IsErr(allocation)
      /\ HostWrites(allocation, message, message, "back")
      /\ UNCHANGED <<guest, local, heard, apis>>

(* The function stores its result, with a terminator. *)
store_as_json_string(length) ==
  LET message == Message(writes + 1, length)
      allocation == WasmAllocation(host, length + 1)
  IN  /\ pc = "api"
      /\ \/ /\ ~IsErr(allocation)
            /\ HostWrites(allocation, message, Append(message, Nul), "back")
         \/ /\ IsErr(allocation)
            /\ enc' = RibosomeEncodingBits(Failure(Unspecified))
            /\ sent' = Code(Unspecified)
            /\ pc' = "back"
            /\ UNCHANGED <<mem, host, writes>>
      /\ UNCHANGED <<guest, local, heard, apis>>

(* The codes that functions of the API return instead of a result. *)
ApiCode == {ArgumentDeserializationFailed, CallbackFailed,
            RecursiveCallForbidden, UnknownEntryType, EntryNotFound,
            WorkflowFailed}

ribosome_error_code(code) ==
  /\ pc = "api"
  /\ enc' = RibosomeEncodingBits(Failure(code))
  /\ sent' = Code(code)
  /\ pc' = "back"
  /\ UNCHANGED <<mem, host, guest, local, heard, writes, apis>>

(* debug, sleep and the no-op functions answer the bare success value,     *)
(* which the HDK hears as ZeroSizedAllocation; hdk::debug and hdk::sleep   *)
(* ignore that error.                                                      *)
ribosome_success ==
  /\ pc = "api"
  /\ enc' = RibosomeEncodingBits(Success)
  /\ sent' = Code(ZeroSizedAllocation)
  /\ pc' = "back"
  /\ UNCHANGED <<mem, host, guest, local, heard, writes, apis>>

(* A function that needs a zome call, or a context, in a call that has     *)
(* none traps, and the whole invocation fails.                             *)
BadCall ==
  /\ pc \in {"host", "api"}
  /\ pc' = "done"
  /\ UNCHANGED <<mem, host, guest, enc, local, sent, heard, writes, apis>>

(* Dispatch::with_input from the host's answer on.  The deallocation is    *)
(* made on the copy of the stack; its error would be the answer.           *)
LoadResult ==
  LET answer == load_ribosome_encoded_string(mem, enc)
      freed == deallocate(local.top, local.arg)
  IN  /\ pc = "back"
      /\ heard' = IF IsErr(freed) THEN Code(freed.high) ELSE answer
      /\ pc' = "zome"
      /\ local' = NoLocal
      /\ UNCHANGED <<mem, host, guest, enc, sent, writes, apis>>

(* The function returns a value (or a callback its error), or, as genesis  *)
(* does, the bare success value.                                           *)
Return(length) ==
  /\ pc = "zome"
  /\ Returns(length)
  /\ UNCHANGED <<host, guest, local, heard, apis>>

ReturnSuccess ==
  /\ pc = "zome"
  /\ enc' = RibosomeEncodingBits(Success)
  /\ sent' = Text(<<>>)
  /\ pc' = "exit"
  /\ UNCHANGED <<mem, host, guest, local, heard, writes, apis>>

(* A panic of the zome code: the handler that __install_panic_handler set  *)
(* may dispatch debug calls, and then the invocation traps.                *)
Panics ==
  /\ pc = "zome"
  /\ pc' = "done"
  /\ UNCHANGED <<mem, host, guest, enc, local, sent, heard, writes, apis>>

(* run_dna decodes what the export returned: null, an error, or the value  *)
(* read by its length.                                                     *)
Exit ==
  LET value == RibosomeEncodedValue(enc)
  IN  /\ pc = "exit"
      /\ heard' = CASE value.kind = "success" -> Text(<<>>)
                    [] value.kind = "failure" -> Code(value.high)
                    [] value.kind = "allocation" -> Text(read(mem, value))
      /\ pc' = "returned"
      /\ UNCHANGED <<mem, host, guest, enc, local, sent, writes, apis>>

Length == 0 .. MaxLen

Next ==
  \/ \E n \in Length : RunDna(n)
  \/ Enter
  \/ \E n \in Length : Dispatch(n)
  \/ LoadArgs
  \/ \E n \in Length : store_as_json_string(n)
  \/ \E code \in ApiCode : ribosome_error_code(code)
  \/ ribosome_success
  \/ BadCall
  \/ LoadResult
  \/ \E n \in Length : Return(n)
  \/ ReturnSuccess
  \/ Panics
  \/ Exit

Spec == Init /\ [][Next]_vars

-----------------------------------------------------------------------------
(* After each read, what the reader has is what the writer wrote for it:   *)
(* the zome its input, the host the arguments of an API call, the HDK the  *)
(* result or the error code, run_dna the returned value.  Host and HDK     *)
(* write over each other's messages, the input is not terminated, and the  *)
(* guest ignores the length of an allocation, so this rests on the order   *)
(* of reads and writes, on the terminator of store_as_json_string, and on  *)
(* an encoding whose allocations and error codes cannot be confused.       *)
ReadsIntact ==
  pc \in {"zome", "api", "returned"} => heard = sent

(* While zome code runs, the HDK's stack is where the prologue put it,     *)
(* right behind the bytes of the input: no API call, failed or not, uses   *)
(* it up, so how much a call may pass does not depend on earlier calls.    *)
GuestStackRewinds ==
  pc = "zome" => guest = {Cardinality({a \in Address : mem[a][1] = 1})}

(* What the HDK says when an API call is over, "Free result & input        *)
(* allocations": while zome code runs, the host's stack holds the input    *)
(* only.                                                                   *)
ResultsFreed ==
  pc = "zome" => host = Cardinality({a \in Address : mem[a][1] = 1})
=============================================================================
