----------------------------- MODULE ProfilePages -----------------------------
(***************************************************************************)
(* fetchProfiles: the student profiles are read in pages.  The first page  *)
(* gives the total, the others are fetched by a few workers, and the first *)
(* page is fetched again to detect that the list moved meanwhile.  A row   *)
(* is its identifier; Warwick serves its list in some order, and changes   *)
(* it while the pages are read.                                            *)
(***************************************************************************)
EXTENDS Naturals, Sequences, SequencesExt

CONSTANTS
  Worker,
  MaxRows,      \* bound on students; a student is one of 1..MaxRows
  PageSize,     \* profilePageSize
  MaxChanges    \* bound on changes of the list during a fetch

ASSUME PagesAssumption == {PageSize, MaxRows} \subseteq Nat \ {0} /\ MaxChanges \in Nat

VARIABLES
  list,       \* Warwick's
  past,       \* history: the sets of rows the list has held since the fetch began
  changes,
  pc,
  first,      \* the first page: its rows and the total
  starts,     \* the channel of page numbers still to take
  worker,     \* the page a worker fetches, 0 for none
  results,
  failed,     \* firstErr is set and fetchCtx cancelled
  profiles    \* the rows merged

pageVars == <<list, past, changes, pc, first, starts, worker, results, failed, profiles>>

(* The lists of profiles: no identifier twice *)
IsList(s) == s \in Seq(1..MaxRows) /\ IsInjective(s)
Response(l, k) == [rows |-> SubSeq(l, k * PageSize + 1, Min({(k + 1) * PageSize, Len(l)})), total |-> Len(l)]
NoResponse == [rows |-> <<>>, total |-> 0]

PagesTypeOK ==
  /\ IsList(list) /\ changes \in 0..MaxChanges
  /\ pc \in {"first", "pages", "merge", "again", "accepted", "rejected"}
  /\ \A k \in starts : k * PageSize < first.total
  /\ worker \in [Worker -> 0..MaxRows]
  /\ failed \in BOOLEAN

PagesInit ==
  /\ list = [i \in 1..(MaxRows - 1) |-> i]
  /\ past = {ToSet(list)} /\ changes = 0
  /\ pc = "first" /\ first = NoResponse
  /\ starts = {} /\ worker = [w \in Worker |-> 0] /\ results = [k \in {} |-> NoResponse]
  /\ failed = FALSE /\ profiles = <<>>

Pages(total) == (total + PageSize - 1) \div PageSize

----------------------------------------------------------------------------
(* Warwick: a student is added, removed, or takes another place *)
Without(l, i) == RemoveAt(l, i)
Change ==
  /\ changes < MaxChanges /\ pc \notin {"accepted", "rejected"}
  /\ \/ \E i \in DOMAIN list : list' = Without(list, i)
     \/ \E x \in (1..MaxRows) \ ToSet(list), j \in 1..(Len(list) + 1) : list' = InsertAt(list, j, x)
     \/ \E i \in DOMAIN list : \E j \in 1..Len(list) :
          list' = InsertAt(Without(list, i), j, list[i])
  /\ list' # list
  /\ past' = past \cup {ToSet(list')}
  /\ changes' = changes + 1
  /\ UNCHANGED <<pc, first, starts, worker, results, failed, profiles>>

WarwickOnly == UNCHANGED <<list, past, changes>>

(* Page 0 reports the total that sizes the rest *)
FetchFirst ==
  LET page == Response(list, 0) IN
  /\ pc = "first"
  /\ first' = page
  /\ profiles' = page.rows
  /\ starts' = 1..(Pages(page.total) - 1)
  /\ results' = [k \in starts' |-> NoResponse]
  /\ pc' = IF starts' = {} THEN "accepted" ELSE "pages"
  /\ UNCHANGED <<worker, failed>> /\ WarwickOnly

(* A worker takes the next page number, unless the fetch is cancelled *)
TakePage(w) ==
  /\ pc = "pages" /\ worker[w] = 0 /\ starts # {} /\ ~failed
  /\ worker' = [worker EXCEPT ![w] = Min(starts)]
  /\ starts' = starts \ {Min(starts)}
  /\ UNCHANGED <<pc, first, results, failed, profiles>> /\ WarwickOnly

FetchPage(w) ==
  /\ pc = "pages" /\ worker[w] # 0
  /\ worker' = [worker EXCEPT ![w] = 0]
  /\ \/ results' = [results EXCEPT ![worker[w]] = Response(list, worker[w])] /\ UNCHANGED failed
     \/ failed' = TRUE /\ UNCHANGED results
  /\ UNCHANGED <<pc, first, starts, profiles>> /\ WarwickOnly

(* pages.Wait returns *)
PagesEnd ==
  /\ pc = "pages" /\ \A w \in Worker : worker[w] = 0
  /\ failed \/ starts = {}
  /\ pc' = IF failed THEN "rejected" ELSE "merge"
  /\ UNCHANGED <<first, starts, worker, results, failed, profiles>> /\ WarwickOnly

(* The rows a page must have *)
expectedProfilePageRows(total, k) ==
  LET left == total - k * PageSize IN IF left > PageSize THEN PageSize ELSE left

(* Variant: mergeProfileRows does not look for duplicates *)
MergeDuplicates ==
  LET all == profiles \o FlattenSeq([k \in DOMAIN results |-> results[k].rows]) IN
  /\ pc = "merge"
  /\ IF \A k \in DOMAIN results : /\ results[k].total = first.total
                                  /\ Len(results[k].rows) = expectedProfilePageRows(first.total, k)
       THEN pc' = "again" /\ profiles' = all
       ELSE pc' = "rejected" /\ UNCHANGED profiles
  /\ UNCHANGED <<first, starts, worker, results, failed>> /\ WarwickOnly

(* Each page must report the same total, hold the rows it must have, and    *)
(* repeat no identifier                                                     *)
Merge ==
  LET all == profiles \o FlattenSeq([k \in DOMAIN results |-> results[k].rows]) IN
  /\ pc = "merge"
  /\ IF /\ \A k \in DOMAIN results : /\ results[k].total = first.total
                                     /\ Len(results[k].rows) = expectedProfilePageRows(first.total, k)
        /\ IsInjective(all)
       THEN pc' = "again" /\ profiles' = all
       ELSE pc' = "rejected" /\ UNCHANGED profiles
  /\ UNCHANGED <<first, starts, worker, results, failed>> /\ WarwickOnly

(* Page 0 again: the same total and the same rows, in any order *)
FetchAgain ==
  /\ pc = "again"
  /\ LET page == Response(list, 0) IN
       pc' = IF /\ page.total = first.total /\ ToSet(page.rows) = ToSet(first.rows)
                /\ Len(profiles) = first.total
               THEN "accepted" ELSE "rejected"
  /\ UNCHANGED <<first, starts, worker, results, failed, profiles>> /\ WarwickOnly

(* A fetch of the first page fails *)
FirstPageFails ==
  /\ pc \in {"first", "again"}
  /\ pc' = "rejected"
  /\ UNCHANGED <<first, starts, worker, results, failed, profiles>> /\ WarwickOnly

FetchStep ==
  \/ FetchFirst \/ PagesEnd \/ Merge \/ FetchAgain
  \/ \E w \in Worker : TakePage(w) \/ FetchPage(w)

PagesNext == Change \/ FirstPageFails \/ FetchStep

PagesSpec == PagesInit /\ [][PagesNext]_pageVars

(* Goroutines run and requests time out *)
FairPagesSpec == PagesSpec /\ WF_pageVars(FetchStep)

----------------------------------------------------------------------------
(* "UserGroupSearch pagination set was unstable" is detected: an accepted   *)
(* fetch is the set Warwick held at one moment of it, although its pages    *)
(* were read at different moments and in any order, if the list changed at  *)
(* most once meanwhile.  Two changes can hide each other.                   *)
AcceptedWasServed == pc = "accepted" /\ changes <= 1 => ToSet(profiles) \in past

(* However the list moves, an accepted fetch has as many distinct rows as   *)
(* the total it was sized by.                                               *)
AcceptedIsWhole ==
  pc = "accepted" => Len(profiles) = first.total /\ IsInjective(profiles)

(* A fetch whose pages are under way ends, also when one fails while others *)
(* are still read (pages.Wait).                                             *)
FetchTerminates == pc = "pages" ~> pc \in {"accepted", "rejected"}
=============================================================================
