------------------------------ MODULE MCDriver ------------------------------
(***************************************************************************)
(* Trace files for Driver: every sequence of requests up to a length that  *)
(* a program could have made, i.e. that frees and reallocates only what it *)
(* has, under the header that belongs to it; and a few with another header *)
(* or a line that is no request.                                           *)
(***************************************************************************)
EXTENDS Driver

CONSTANT
  Programs  \* what the traces for a correct and for another allocator may
            \* do: their length, their sizes, and whether they realloc to 0

Requests(may) ==
  LET sized == [type : {"ALLOC", "REALLOC"}, index : Ids, size : may.sizes]
      frees == [type : {"FREE"}, index : Ids, size : {0}]
  IN  {r \in sized : r.type = "REALLOC" /\ r.size = 0 => may.zero} \cup frees

(* Requests for what the program has, ids numbered in the order of use; one  *)
(* for more than INT_MAX is the last.                                        *)
WellFormed(t) ==
  \A k \in DOMAIN t :
    /\ (t[k].type # "ALLOC") = Has(t, k, t[k].index)
    /\ t[k].index \in {0} \cup {t[j].index + 1 : j \in 1 .. k - 1}
    /\ t[k].size > INT_MAX => k = Len(t)

WellFormedTraces(may) ==
  {t \in BoundedSeq(Requests(may), may.length) : WellFormed(t)}

(* A file whose header is off by i ids and j requests. *)
MCFile(t, i, j) ==
  [num_ids |-> max_index(t) + 1 + i, num_ops |-> Len(t) + j, lines |-> t]

OneLine(type) == <<[type |-> type, index |-> 0, size |-> Max(Sizes)]>>

MCFiles ==
  [c \in Allocators |->
     {MCFile(t, 0, 0) : t \in WellFormedTraces(Programs[c])}
       \cup {MCFile(OneLine("ALLOC"), i, j) : i, j \in -1 .. 1}
       \cup {MCFile(OneLine("bogus"), 0, 0)}]

(* The theorems about programs' traces apply to these. *)
ASSUME MCFilesAssumption ==
  /\ ProgramFiles
  /\ (\A c \in Allocators : c => ~ Programs[c].zero) => NoReallocToZero

(* Aligned addresses of the memory, one past its end, and one misaligned. *)
MCPointers ==
  {a \in 1 .. mem_max_addr : a % ALIGNMENT = 0} \cup {mem_start_brk + 4}

(* With both kinds of allocator: no REALLOC to 0 for the correct one, which  *)
(* the driver would misjudge, and for the other one a size that lets a       *)
(* payload reach out on both sides of another.                               *)
Both ==
  TRUE :> [length |-> 4, sizes |-> {0, 8, 12, 248}, zero |-> FALSE]
  @@ FALSE :> [length |-> 3, sizes |-> {0, 8, 24, 248}, zero |-> TRUE]

(* One kind, and one question. *)
CorrectUsesZero == TRUE :> [length |-> 4, sizes |-> {0, 8, 12}, zero |-> TRUE]
CorrectNoZero == TRUE :> [length |-> 4, sizes |-> {0, 8, 12}, zero |-> FALSE]
AnyNoZero == FALSE :> [length |-> 3, sizes |-> {8, 24}, zero |-> FALSE]
=============================================================================
