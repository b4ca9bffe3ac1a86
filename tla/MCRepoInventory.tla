-------------------------- MODULE MCRepoInventory --------------------------
(***************************************************************************)
(* A root holding the kernel directory kdir, two files f3 and f4 and an    *)
(* excluded build directory bdir with f5; kdir holds f1, f2 (with " 2."    *)
(* in its name), a hidden file and a broken link.  f1 may vanish before    *)
(* stat() and f2 may not open; f1, f2 and f4 may lack a suffix.            *)
(***************************************************************************)
EXTENDS RepoInventory

CONSTANTS root, kdir, bdir, f1, f2, f3, f4, f5, hdn, lnk

MCEntries == {kdir, bdir, f1, f2, f3, f4, f5, hdn, lnk}

MCParent(e) == CASE e \in {f1, f2, hdn, lnk} -> kdir
                 [] e = f5 -> bdir
                 [] OTHER -> root

MCKind(e) == CASE e \in {kdir, bdir} -> "dir" [] e = lnk -> "other" [] OTHER -> "file"

MCComponent(e) == IF e = kdir THEN "kernel" ELSE "none"

MCExtChoices(f) == CASE f \in {f1, f2} -> {".c", ""}
                     [] f = f3 -> {".py"}
                     [] f = f4 -> {".py", ""}
                     [] OTHER -> {".c"}

MCSize(e) == IF e = f3 THEN 2 ELSE 1

MCLineCount(e) == 3

=============================================================================
