-------------------------------- MODULE Repl --------------------------------
(***************************************************************************)
(* The malloc REPL of mdriver.c (-r): a user gives malloc, realloc, free,  *)
(* reset and quit commands for numbered blocks, in any order.  A command   *)
(* is a step; one that only prints, or is refused, is none.                *)
(*                                                                         *)
(* The allocator is an environment that keeps the malloc contract: given   *)
(* is what it has handed out, by address, with the index whose pattern     *)
(* each piece was last filled with.  What the REPL knows is ranges and     *)
(* blocks.  The break does not matter to it: all the memory is heap.       *)
(***************************************************************************)
EXTENDS Ranges

CONSTANTS
  Indices,   \* the block numbers the user gives, below MAX_REPL_SIZE
  Sizes,     \* the sizes the user asks for, with or without a minus sign
  Pointers,  \* the addresses the allocator may answer
  Allowed    \* what the user does that needs care: see UserHabits

UserHabits ==
  {"unused",  \* reallocates an index that is not in use
   "zero",    \* reallocates to size 0
   "reset"}   \* resets while an index is in use

ASSUME ReplAssumption ==
  /\ Indices \subseteq Int /\ Sizes \subseteq Nat
  /\ Pointers \subseteq Nat \ {NULL}
  /\ Allowed \subseteq UserHabits

VARIABLES
  blocks,   \* repl_state->blocks
  ranges,   \* repl_state->ranges
  given,    \* the allocator: what it has handed out
  errors,   \* the kinds of error reported so far
  status,   \* "running", or how the REPL has ended
  careless  \* auxiliary: has the user done something of UserHabits?

vars == <<blocks, ranges, given, errors, status, careless>>

Smaller(a, b) == IF a < b THEN a ELSE b

Pieces == [ptr : Nat, size : Nat, fill : Indices]

DisjointFrom(p, n, piece) == p + n <= piece.ptr \/ piece.ptr + piece.size <= p

(* May the allocator hand out n bytes at p, others being handed out? *)
Fits(p, n, others) ==
  /\ p % ALIGNMENT = 0 /\ mem_start_brk <= p /\ p + n <= mem_max_addr
  /\ \A piece \in others : DisjointFrom(p, n, piece)

At(p) == {piece \in given : piece.ptr = p}

InUse(x) == blocks[x].is_valid

Running == status = "running"

(* The command is one of a user with these habits. *)
Shows(habits) ==
  /\ habits \subseteq Allowed
  /\ careless' = (careless \/ habits # {})

(* make_repl_state and the reset_cmd that driver() starts with. *)
Init ==
  /\ blocks = [x \in Indices |-> [is_valid |-> FALSE, ptr |-> NULL, size |-> 0]]
  /\ ranges = clear_ranges
  /\ given = {} /\ errors = {} /\ status = "running" /\ careless = FALSE

(* malloc_error; the command is given up. *)
Reports(error) == errors' = errors \cup {error} /\ UNCHANGED blocks

OutOfMemory == Reports("failed") /\ UNCHANGED <<ranges, given, status>>

Aborts == status' = "abort" /\ UNCHANGED <<blocks, errors>>

(* memset takes its length as unsigned: a negative one overruns everything. *)
Fills(size) ==
  status' = (IF size < 0 THEN "wild" ELSE "running") /\ UNCHANGED errors

(* What mm_malloc grants: for a negative size, the smallest block there is. *)
Granted(size) == IF size < 0 THEN MINBLOCKSIZE - TAGS_SIZE ELSE size

(* mm_free or mm_realloc of a pointer to nothing. *)
Misuses == status' = "undefined" /\ UNCHANGED <<blocks, ranges, given, errors>>

malloc_cmd(x, size) ==
  /\ Running /\ ~ InUse(x) /\ size # 0 /\ Shows({})
  /\ \/ OutOfMemory
     \/ \E p \in Pointers :
          LET fine == range_is_fine(ranges, mem_max_addr, p, size)
          IN  /\ Fits(p, Granted(size), given)
              /\ given' = given \cup
                   {[ptr |-> p, size |-> Granted(size), fill |-> x]}
              /\ \/ /\ ~ range_asserts(size)
                    /\ Aborts /\ UNCHANGED ranges
                 \/ /\ range_asserts(size) /\ fine
                    /\ ranges' = add_range(ranges, p, size)
                    /\ blocks' = [blocks EXCEPT ![x] =
                         [is_valid |-> TRUE, ptr |-> p, size |-> size]]
                    /\ Fills(size)
                 \/ /\ range_asserts(size) /\ ~ fine
                    /\ Reports("range") /\ UNCHANGED <<ranges, status>>

free_cmd(x) ==
  LET p == blocks[x].ptr
  IN  /\ Running /\ InUse(x) /\ Shows({})
      /\ \/ At(p) = {} /\ Misuses
         \/ /\ At(p) # {}
            /\ given' = given \ At(p)
            /\ ranges' = remove_range(ranges, p)
            /\ blocks' = [blocks EXCEPT ![x].is_valid = FALSE]
            /\ UNCHANGED <<errors, status>>

(* Mutant: the block is looked for where it was before. *)
Moves_forgotten(x, p, size) == blocks' = [blocks EXCEPT ![x].size = size]

(* "Remember region": an index that was not in use does not become so. *)
Moves(x, p, size) ==
  blocks' = [blocks EXCEPT ![x].ptr = p, ![x].size = size]

(* What the REPL compares with x's pattern after a realloc is not all there. *)
LosesData(x, size, old, intact) ==
  LET compared == Smaller(size, blocks[x].size)
  IN  compared > 0
      /\ ~ \E piece \in old : piece.fill = x /\ compared <= intact

(* mm_realloc(oldp, size), size # 0, moves the piece old to p.              *)
Reallocates(x, size, old, p, intact) ==
  LET oldp == blocks[x].ptr
      rs   == remove_range(ranges, oldp)
      fine == range_is_fine(rs, mem_max_addr, p, size)
      lost == LosesData(x, size, old, intact)
      kept == {piece.fill : piece \in old}
      fill == IF fine /\ ~ lost THEN {x}
              ELSE IF kept = {} THEN Indices ELSE kept
  IN  /\ Fits(p, Granted(size), given \ old)
      /\ \E f \in fill : given' = (given \ old) \cup
           {[ptr |-> p, size |-> Granted(size), fill |-> f]}
      /\ \/ /\ ~ range_asserts(size)
            /\ Aborts
         \/ /\ range_asserts(size) /\ fine /\ ~ lost
            /\ Moves(x, p, size) /\ Fills(size)
         \/ /\ range_asserts(size) /\ fine /\ lost
            /\ Reports("data") /\ UNCHANGED status
         \/ /\ range_asserts(size) /\ ~ fine
            /\ Reports("range") /\ UNCHANGED status
      /\ ranges' = IF range_asserts(size) /\ fine THEN add_range(rs, p, size)
                   ELSE rs

remalloc_cmd(x, size) ==
  LET oldp == blocks[x].ptr
      old  == At(oldp)
      kept == {Smaller(Granted(size), piece.size) : piece \in old}
  IN  /\ Running
      /\ Shows({h \in {"unused"} : ~ InUse(x)} \cup {h \in {"zero"} : size = 0})
      /\ \/ oldp # NULL /\ old = {} /\ Misuses
         \/ /\ oldp = NULL \/ old # {}
            /\ size = 0
            /\ given' = given \ old
            /\ UNCHANGED <<blocks, ranges, errors, status>>
         \/ /\ oldp = NULL \/ old # {}
            /\ size # 0
            /\ \/ OutOfMemory
               \/ \E p \in Pointers, intact \in kept \cup {Granted(size)} :
                    Reallocates(x, size, old, p, intact)

(* Neither blocks' pointers nor their is_valid flags are cleared. *)
reset_cmd ==
  /\ Running
  /\ Shows({h \in {"reset"} : \E x \in Indices : InUse(x)})
  /\ ranges' = clear_ranges
  /\ given' = {}
  /\ UNCHANGED <<blocks, errors, status>>

(* Or the end of the input. *)
quit_cmd ==
  /\ Running
  /\ ranges' = clear_ranges
  /\ status' = "quit"
  /\ UNCHANGED <<blocks, given, errors, careless>>

Next ==
  \/ \E x \in Indices :
       \/ free_cmd(x)
       \/ \E size \in Sizes \cup {- n : n \in Sizes} :
            malloc_cmd(x, size) \/ remalloc_cmd(x, size)
  \/ reset_cmd \/ quit_cmd

Spec == Init /\ [][Next]_vars

-----------------------------------------------------------------------------
(* print                                                                    *)

(* Mutant: the first index with that pointer is good enough. *)
find_repl_block_first(p) ==
  LET at == {x \in Indices : blocks[x].ptr = p}
  IN  IF at = {} THEN -1 ELSE Min(at)

(* The index print shows for the block whose payload is at p, -1 for none:   *)
(* an index in use if there is one, or else the last that was once there.    *)
find_repl_block_from_block(p) ==
  LET at == {x \in Indices : blocks[x].ptr = p}
      used == {x \in at : InUse(x)}
  IN  IF used # {} THEN Min(used) ELSE IF at # {} THEN Max(at) ELSE -1

-----------------------------------------------------------------------------
(* What has to hold                                                         *)

(* The REPL's records have their declared types, and a range is as long as  *)
(* a size the user asked for.                                               *)
ReplTypeOK ==
  /\ blocks \in [Indices -> [is_valid : BOOLEAN, ptr : Nat,
                             size : Sizes \cup {0}]]
  /\ \A k \in DOMAIN ranges : ranges[k].hi - ranges[k].lo + 1 \in Sizes
  /\ given \subseteq Pieces
  /\ errors \subseteq {"failed", "range", "data"}
  /\ status \in {"running", "quit", "abort", "wild", "undefined"}
  /\ careless \in BOOLEAN

(* An index in use ("ERROR: index already in use", malloc_cmd) stands for a *)
(* payload of its own: allocated, of the size recorded, filled with its     *)
(* pattern.                                                                 *)
InUseHolds ==
  \A x \in Indices : InUse(x) =>
    [ptr |-> blocks[x].ptr, size |-> blocks[x].size, fill |-> x] \in given

(* Until the user does something careless, every command leaves it so, and   *)
(* in whatever order the commands come, mm_free and mm_realloc are passed no *)
(* pointer to nothing.                                                       *)
CarefulUseHolds ==
  careless \/ (status # "undefined" /\ (Running => InUseHolds))

(* Until then the range list holds the extent of every allocated payload,   *)
(* and nothing else (mdriver.c 335-336).                                    *)
ReplRangesExact ==
  careless \/ ~ Running \/
              /\ Len(ranges) = Cardinality(given)
              /\ \A piece \in given : \E k \in DOMAIN ranges :
                   ranges[k] = range(piece.ptr, piece.size)

(* Nor is a correct allocator blamed for anything but having no memory left.*)
ReplNeverBlames == careless \/ errors \subseteq {"failed"}

(* "fixed a bug in which it would return a block index for a freed block    *)
(* that was later allocated again" (1148): print shows every payload of a   *)
(* careful user under the index it was allocated for, though the pointers   *)
(* of freed indices stay behind.                                            *)
PrintsOwner ==
  careless \/ ~ Running \/
    \A piece \in given : find_repl_block_from_block(piece.ptr) = piece.fill

(* Whatever is typed as a size, negative numbers too, no command fills more *)
(* memory than it was given: the assert in add_range ends the REPL first.   *)
ReplNoWildFill == status # "wild"

(* Whatever the user does, records that stay behind included, the range     *)
(* list admits no payload that has an end inside an older record.           *)
ReplRangesApart == Apart(ranges)
=============================================================================
