------------------------------ MODULE FileList ------------------------------
(***************************************************************************)
(* The rows of the file list panel (FileList.cpp): a single-selection list *)
(* view that repeats the directory listing of Doc.  The panel never clears *)
(* and refills the view after a rescan: smoothRebuild() merges the rows    *)
(* with the new listing, so that the scroll position survives.             *)
(*                                                                         *)
(* Row and file indices are counted from 1 here; 0 stands for the -1 of    *)
(* the code ("no row", "no file").                                         *)
(***************************************************************************)
EXTENDS Naturals, Sequences, SequencesExt

CONSTANT Key   \* the place of a name in StrCmpLogicalW order; names that
               \* differ only in case share one place

ASSUME KeyAssumption == IsFiniteSet(DOMAIN Key) /\ \A n \in DOMAIN Key : Key[n] \in Nat

Names == DOMAIN Key

Sorted(s) == \A i, j \in DOMAIN s : i < j => Key[s[i]] <= Key[s[j]]

NoRows == [rows |-> <<>>, sel |-> 0]

(* LVS_SINGLESEL: selecting one row deselects the others. *)
SelectRow(list, i) ==
  IF i \in DOMAIN list.rows THEN [list EXCEPT !.sel = i] ELSE list

(* ListView_DeleteItem: a row that is not there is not deleted. *)
DeleteRow(list, i) ==
  IF i \notin DOMAIN list.rows THEN list
  ELSE [rows |-> RemoveAt(list.rows, i),
        sel  |-> CASE list.sel = i -> 0
                   [] list.sel > i -> list.sel - 1
                   [] OTHER        -> list.sel]

(* ListView_InsertItem: a position past the end is the end. *)
InsertRow(list, i, n) ==
  LET at == IF i > Len(list.rows) THEN Len(list.rows) + 1 ELSE i
  IN  [rows |-> InsertAt(list.rows, at, n),
       sel  |-> IF list.sel >= at THEN list.sel + 1 ELSE list.sel]

-----------------------------------------------------------------------------
Rebuild(list, files, idx) == SelectRow([rows |-> files, sel |-> 0], idx)

MoveSelection(list, oldIdx, newIdx, count) ==
  LET cleared == IF oldIdx # 0 /\ list.sel = oldIdx
                 THEN [list EXCEPT !.sel = 0] ELSE list
  IN  IF newIdx <= count THEN SelectRow(cleared, newIdx) ELSE cleared

RemoveItem(list, delIdx) == DeleteRow(list, delIdx)

(* One turn of the merge loop: st.o and st.n are the fronts of the old and *)
(* the new listing, st.at is lv_idx.                                       *)
\* Fault: the row pointer is advanced after a deletion too.
MergeStep_SkipsRow(st, old, new) ==
  LET hasOld == st.o <= Len(old)
      hasNew == st.n <= Len(new)
  IN  CASE ~hasOld /\ ~hasNew -> st
        [] hasOld /\ (hasNew => Key[old[st.o]] < Key[new[st.n]]) ->
             [st EXCEPT !.list = DeleteRow(st.list, st.at), !.at = @ + 1, !.o = @ + 1]
        [] hasNew /\ (hasOld => Key[old[st.o]] > Key[new[st.n]]) ->
             [st EXCEPT !.list = InsertRow(st.list, st.at, new[st.n]), !.at = @ + 1, !.n = @ + 1]
        [] OTHER -> [st EXCEPT !.at = @ + 1, !.o = @ + 1, !.n = @ + 1]

MergeStep(st, old, new) ==
  LET hasOld == st.o <= Len(old)
      hasNew == st.n <= Len(new)
  IN  CASE ~hasOld /\ ~hasNew -> st
        [] hasOld /\ (hasNew => Key[old[st.o]] < Key[new[st.n]]) ->
             [st EXCEPT !.list = DeleteRow(st.list, st.at), !.o = @ + 1]
        [] hasNew /\ (hasOld => Key[old[st.o]] > Key[new[st.n]]) ->
             [st EXCEPT !.list = InsertRow(st.list, st.at, new[st.n]), !.at = @ + 1, !.n = @ + 1]
        [] OTHER -> [st EXCEPT !.at = @ + 1, !.o = @ + 1, !.n = @ + 1]

Merges(list, old, new) ==
  LET merge[k \in Nat] ==
        IF k = 0 THEN [list |-> list, o |-> 1, n |-> 1, at |-> 1]
        ELSE MergeStep(merge[k - 1], old, new)
  IN  merge

SmoothRebuild(list, old, new, idx) ==
  SelectRow(Merges(list, old, new)[Len(old) + Len(new)].list, idx)
=============================================================================
