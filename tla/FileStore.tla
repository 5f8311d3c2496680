------------------------------ MODULE FileStore ------------------------------
(***************************************************************************)
(* What the calls on the modem's files promise a program, without commands,*)
(* handles, blocks, waits or bounds: a call takes effect at most once,     *)
(* between its begin and its return; data that was offered may come into a *)
(* file later, and while it is owed a call has no effect, except that what *)
(* it sends may get into that file.                                        *)
(***************************************************************************)
EXTENDS Naturals

CONSTANTS
  Lens,        (* lengths of files and buffers                              *)
  Others,      (* numbers of other files there may be                       *)
  ListCap      (* entries a listing can hold                                *)

VARIABLES
  step,        (* "idle", or of the call: "begun", "opened" or "offered"    *)
  op, size,    (* the last call, and the length of its data or buffer       *)
  result,      (* what it returned: "none", "Ok" or "Err"                   *)
  told,        (* the length or number it returned with Ok                  *)
  sure,        (* "yes" if that Ok rests on a report of the modem           *)
  file,        (* length of the file                                        *)
  present,     (* "no" if there is none                                     *)
  spoiled,     (* "yes" if there is more in it than was offered for it      *)
  others,      (* number of other files                                     *)
  due, owed,   (* "yes" while data is owed to the file; how much            *)
  mixed,       (* "yes" once something else may be among what is owed       *)
  broken,      (* "yes" once the line cut data off                          *)
  late         (* "yes" once a call returned while data was owed            *)

call == <<op, size>>
content == <<file, present, spoiled>>
debt == <<due, owed, mixed>>
store == <<content, others, debt>>
vars == <<step, call, result, told, sure, store, broken, late>>

LeastOf(a, b) == IF a <= b THEN a ELSE b
Files == others + (IF present = "yes" THEN 1 ELSE 0)

Init ==
  /\ step = "idle" /\ op = "none" /\ size = 0 /\ result = "none" /\ told = 0 /\ sure = "no"
  /\ others \in Others /\ due = "no" /\ owed = 0 /\ mixed = "no"
  /\ spoiled = "no" /\ broken = "no" /\ late = "no"
  /\ \/ present = "no" /\ file = 0
     \/ present = "yes" /\ file \in Lens

Begin(o, n) ==
  /\ step = "idle" /\ step' = "begun" /\ op' = o /\ size' = n
  /\ result' = "none" /\ told' = 0 /\ sure' = "no"
  /\ UNCHANGED <<store, broken, late>>

(* A file must be there to be read; a write creates it, or empties it.     *)
Emptied == file' = 0 /\ present' = "yes" /\ spoiled' = "no"

Opens ==
  /\ step = "begun" /\ due = "no" /\ step' = "opened"
  /\ \/ op = "read" /\ present = "yes" /\ UNCHANGED content
     \/ op = "write" /\ Emptied
  /\ UNCHANGED <<call, result, told, sure, others, debt, broken, late>>

(* What a call sends while data is owed may get in among it.               *)
MayMix == mixed' \in IF due = "yes" THEN {mixed, "yes"} ELSE {mixed}

(* The data is owed from here on, or never: an upload does not replace a   *)
(* file.                                                                   *)
Offers ==
  /\ \/ op = "upload" /\ step = "begun"
     \/ op = "write" /\ step = "opened"
  /\ step' = "offered"
  /\ \/ /\ due = "no" /\ size > 0 /\ (op = "upload" => present = "no")
        /\ due' = "yes" /\ owed' = size /\ mixed' = "no"
     \/ MayMix /\ UNCHANGED <<due, owed>>
  /\ UNCHANGED <<call, result, told, sure, content, others, broken, late>>

(* As much of it as came through: once, during the call or after.          *)
Lands ==
  /\ due = "yes" /\ due' = "no" /\ owed' = 0 /\ mixed' = "no"
  /\ file' \in 0..owed /\ present' = "yes" /\ spoiled' = mixed
  /\ UNCHANGED <<step, call, result, told, sure, others, broken, late>>

Breaks ==
  /\ step = "opened" /\ broken' = "yes"
  /\ UNCHANGED <<step, call, result, told, sure, store, late>>

Returns(r) ==
  /\ step' = "idle" /\ result' = r
  /\ late' = IF due = "yes" THEN "yes" ELSE late
  /\ UNCHANGED call

Fails ==
  /\ step # "idle" /\ Returns("Err") /\ broken' \in {broken, "yes"} /\ MayMix
  /\ UNCHANGED <<told, sure, content, others, due, owed>>

(* A write that returns Err may have emptied the file, or created it.      *)
EmptiesOnly ==
  /\ step = "begun" /\ op = "write" /\ due = "no" /\ Returns("Err") /\ Emptied
  /\ UNCHANGED <<told, sure, others, debt, broken>>

(* All that fits, unless the line cut something off.                       *)
ReadReturns ==
  /\ step = "opened" /\ op = "read" /\ Returns("Ok")
  /\ told' \in 0..LeastOf(size, file)
  /\ broken = "no" => told' = LeastOf(size, file)
  /\ UNCHANGED <<sure, store, broken>>

(* Ok alone promises nothing; with a report the file is there, whole, and  *)
(* nothing else is in it.                                                  *)
StoreReturns ==
  /\ step = "offered" /\ Returns("Ok")
  /\ sure' \in {"yes", "no"}
  /\ sure' = "yes" /\ late' = "no" => due = "no" /\ file = size /\ spoiled = "no"
  /\ UNCHANGED <<told, store, broken>>

(* A delete may have happened although it returns Err.                     *)
Deletes ==
  /\ step = "begun" /\ op = "delete" /\ due = "no" /\ present = "yes"
  /\ present' = "no" /\ file' = 0 /\ spoiled' = "no"
  /\ \E r \in {"Ok", "Err"} : Returns(r)
  /\ UNCHANGED <<told, sure, others, debt, broken>>

Lists ==
  /\ step = "begun" /\ op = "list" /\ due = "no" /\ Files <= ListCap
  /\ Returns("Ok") /\ told' = Files
  /\ UNCHANGED <<sure, store, broken>>

Measures ==
  /\ step = "begun" /\ due = "no" /\ present = "yes"
  /\ op = "meta" \/ (op = "download" /\ file <= size)
  /\ Returns("Ok") /\ told' = file
  /\ UNCHANGED <<sure, store, broken>>

Operations == {"upload", "write", "read", "download", "delete", "list", "meta"}

Next ==
  \/ \E o \in Operations, n \in Lens : Begin(o, n)
  \/ Opens \/ Offers \/ Lands \/ Breaks
  \/ Fails \/ EmptiesOnly \/ ReadReturns \/ StoreReturns \/ Deletes \/ Lists \/ Measures

Spec == Init /\ [][Next]_vars
=============================================================================
