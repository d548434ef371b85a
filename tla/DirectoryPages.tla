--------------------------- MODULE DirectoryPages ---------------------------
(***************************************************************************)
(* filesystem_list_directory (tools/filesystem/handlers.py), called page   *)
(* after page by a client that follows next_offset.  Every call lists the  *)
(* directory anew, entry by entry, so that pages are taken of directories  *)
(* that may differ.                                                        *)
(***************************************************************************)
EXTENDS ScanTree

CONSTANTS
  Listable,             \* the paths that no pattern blocks and, of those that are
                        \* files, whose extension is allowed
  MaxDirectoryEntries,  \* max_directory_entries
  PageLimits            \* the limits clients ask for

ASSUME PagesAssumption ==
  Listable \subseteq Paths /\ MaxDirectoryEntries \in Nat /\ PageLimits \subseteq Nat \ {0}

VARIABLE pages   \* the client's walk, and the call under way

PagesOff == [pc |-> "off"]

PagesBegin(limit) ==
  [pc |-> "call", limit |-> limit, offset |-> 0, calls |-> 0,
   names |-> {}, scanned |-> 0, truncated |-> FALSE, candidate |-> Top, directory |-> FALSE,
   entries |-> {}, shown |-> <<>>, cut |-> FALSE]

\* An entry, as it is listed and by what it was sorted.
Listed == [path: Paths, first: BOOLEAN, kind: {"directory", "file"}]

\* directory.iterdir(): every name at once.
PagesCall ==
  /\ pages.pc = "call"
  /\ pages' = [pages EXCEPT !.pc = "next", !.scanned = 0, !.truncated = FALSE, !.entries = {},
                            !.names = {p \in Children(Top) : Kind(p) # "none"}]
  /\ UNCHANGED world

\* The next candidate, in the order of the file system: is_dir(), and the
\* policy for a directory or a file; what a link leads to is outside.
PagesJudge(p) ==
  /\ pages.pc = "next" /\ p \in pages.names
  /\ pages.scanned < MaxDirectoryEntries
  /\ LET next == [pages EXCEPT !.names = @ \ {p}, !.scanned = @ + 1] IN
     pages' = IF p \in Listable /\ Kind(p) # "link"
              THEN [next EXCEPT !.pc = "stat", !.candidate = p,
                                !.directory = Kind(p) \in {"dir", "locked"}]
              ELSE next
  /\ UNCHANGED world

PagesFull ==
  /\ pages.pc = "next" /\ pages.names # {}
  /\ pages.scanned >= MaxDirectoryEntries
  /\ pages' = [pages EXCEPT !.pc = "answer", !.truncated = TRUE]
  /\ UNCHANGED world

\* _entry_metadata, which follows links; an entry that is gone is left out.
PagesStat ==
  /\ pages.pc = "stat"
  /\ LET p == pages.candidate
         kind == IF IsDirectory(p) THEN "directory" ELSE "file" IN
     pages' = [pages EXCEPT !.pc = "next",
                 !.entries = IF Kind(p) = "none" THEN @
                             ELSE @ \cup {[path |-> p, first |-> pages.directory, kind |-> kind]}]
  /\ UNCHANGED world

PagesScanned ==
  /\ pages.pc = "next" /\ pages.names = {}
  /\ pages' = [pages EXCEPT !.pc = "answer"]
  /\ UNCHANGED world

\* Directories first, each kind by name.
Listing ==
  LET of(first) == Sorted({p \in Paths : \E e \in pages.entries : e.path = p /\ e.first = first})
  IN of(TRUE) \o of(FALSE)

\* Mutant: a listing of which all but one entry was shown has no next page.
PagesAnswer_OneMore ==
  /\ pages.pc = "answer"
  /\ LET last == Min({pages.offset + pages.limit, Len(Listing)})
         page == SubSeq(Listing, pages.offset + 1, last) IN
     pages' = [pages EXCEPT
       !.shown = @ \o page, !.calls = @ + 1, !.cut = @ \/ pages.truncated,
       !.pc = IF pages.offset + Len(page) + 1 < Len(Listing) THEN "call" ELSE "over",
       !.offset = pages.offset + Len(page)]
  /\ UNCHANGED world

\* The page of the sorted list, and the next offset if more is left.
PagesAnswer ==
  /\ pages.pc = "answer"
  /\ LET last == Min({pages.offset + pages.limit, Len(Listing)})
         page == SubSeq(Listing, pages.offset + 1, last) IN
     pages' = [pages EXCEPT
       !.shown = @ \o page, !.calls = @ + 1, !.cut = @ \/ pages.truncated,
       !.pc = IF pages.offset + Len(page) < Len(Listing) THEN "call" ELSE "over",
       !.offset = pages.offset + Len(page)]
  /\ UNCHANGED world

PagesNext ==
  \/ PagesCall \/ (\E p \in Paths : PagesJudge(p)) \/ PagesFull \/ PagesStat \/ PagesScanned
  \/ PagesAnswer

-----------------------------------------------------------------------------
(* Properties *)

\* Nothing appeared, went away or became something else.
SameNames == changes <= 1 /\ \A p \in Paths : Kind(p) = plan.tree[p].kind

\* A client that follows next_offset through a directory whose names stay is
\* shown every entry the policy allows once, in one order, if no page says
\* that it was truncated.  Names that differ only in case have one place in that
\* order (the code sorts them by name.lower()); here no two names do.
PagesExact ==
  pages.pc = "over" /\ SameNames /\ ~pages.cut =>
    LET allowed(kinds) == Sorted({p \in Listable \cap Children(Top) : Kind(p) \in kinds})
    IN pages.shown = allowed({"dir", "locked"}) \o allowed({"file", "hard", "other"})

\* However the directory changes, the pages come to an end: each call but the
\* last shows an entry, and a listing has at most MaxDirectoryEntries of them.
PagesEnd ==
  pages.pc # "off" =>
    /\ pages.offset = Len(pages.shown) \/ pages.pc = "over"
    /\ pages.offset <= MaxDirectoryEntries
    /\ pages.calls <= pages.offset + 1
=============================================================================
