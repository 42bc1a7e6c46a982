-------------------------------- MODULE Disk --------------------------------
(***************************************************************************)
(* What a file holds, for the code that opens files with mode "w" or "wb"  *)
(* and writes them in place: nothing, a write that was cut short (the file *)
(* is truncated when it is opened), or all of what one write put there.    *)
(* np.load and json.loads raise on a torn file.  The process dies, not the *)
(* machine: what it wrote before is on the disk, in the order of writing.  *)
(***************************************************************************)

Absent == <<"absent">>
Torn == <<"torn">>
Whole(x) == <<"whole", x>>

Exists(file) == file # Absent
IsWhole(file) == file \notin {Absent, Torn}
Content(file) == file[2]

(* What a write that did not come to its end leaves of the file. *)
CutWrite(file) == {file, Torn}
=============================================================================
