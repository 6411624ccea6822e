------------------------------- MODULE Listing -------------------------------
(***************************************************************************)
(* `list` and `count`: memory rows under a valid-time and a system-time    *)
(* lens, page by page by keyset cursor, while other callers put, close and *)
(* erase rows between two pages.  Scope, category, known-time and text     *)
(* filters test what a row never changes and are left out.                 *)
(***************************************************************************)
EXTENDS Naturals, FiniteSets, SequencesExt

CONSTANTS
    MaxRows,        \* bound on the rows ever created; ids grow with creation
    MaxTime,        \* bound on the clock
    Limits,         \* the page sizes asked for
    CountLimit,     \* the page size of a count
    PageCap         \* the most pages a count reads

ASSUME ListingAssumption ==
    /\ MaxRows \in Nat /\ MaxTime \in Nat \ {0} /\ PageCap \in Nat
    /\ Limits \subseteq Nat \ {0} /\ CountLimit \in Nat \ {0}

RowId == 1 .. MaxRows
Time == 1 .. MaxTime
Open == MaxTime + 1         \* no valid_until, no sys_closed
Unset == 0                  \* no as_of, no sys_as_of

VARIABLES
    rows,       \* the memory table
    clock,      \* the store's and the callers' clock
    listing     \* the call: its pinned lenses, its cursor and its pages

listVars == <<rows, clock, listing>>

NoRow == [state |-> "absent", from |-> 1, until |-> Open, created |-> 1, closed |-> Open]

\* `standing` and `ever` record which rows the lens showed all the time and at
\* some time since the first page, `first` which ones it showed then.
NoListing == [phase |-> "idle", asOf |-> Unset, sys |-> Unset, begun |-> 1, limit |-> 1,
              counting |-> FALSE, pages |-> 0, cursor |-> <<>>, items |-> <<>>,
              standing |-> {}, ever |-> {}, first |-> {}]

ListingInit ==
    /\ rows = [r \in RowId |-> NoRow]
    /\ clock = 1
    /\ listing = NoListing

----------------------------------------------------------------------------

\* The WHERE clause of the query.
Shows(table, r, asOf, sys) ==
    /\ table[r].state = "live"
    /\ table[r].from <= asOf /\ table[r].until > asOf
    /\ sys # Unset => table[r].created <= sys /\ table[r].closed > sys

Shown(table, asOf, sys) == {r \in RowId : Shows(table, r, asOf, sys)}

\* ORDER BY valid_from DESC, id DESC, and the cursor's place in that order.
Before(table, r, s) ==
    \/ table[r].from > table[s].from
    \/ table[r].from = table[s].from /\ r > s

\* Mutant: the cursor compares valid times only.
AfterByTime(table, cursor, r) == cursor = <<>> \/ table[r].from < table[cursor[1]].from

After(table, cursor, r) == cursor = <<>> \/ Before(table, cursor[1], r)

----------------------------------------------------------------------------
(* Other callers. *)

\* Every change of the table is recorded for the listing in progress.
Store(table) ==
    /\ rows' = table
    /\ listing' = IF listing.phase # "open" THEN listing
                  ELSE LET shown == Shown(table, listing.asOf, listing.sys)
                       IN  [listing EXCEPT !.standing = @ \cap shown, !.ever = @ \cup shown]

Fresh(r) == rows[r].state = "absent" /\ \A s \in RowId : s < r => rows[s].state # "absent"

Born(from, until) ==
    [state |-> "live", from |-> from, until |-> until, created |-> clock, closed |-> Open]

\* Any valid time may be given; sys_created is the time of the write.
PutRow(from, until) ==
    /\ until > from
    /\ \E r \in RowId : Fresh(r) /\ Store([rows EXCEPT ![r] = Born(from, until)])
    /\ UNCHANGED clock

MayClose(r, at) ==
    /\ rows[r].state = "live" /\ rows[r].until = Open /\ rows[r].closed = Open
    /\ at >= rows[r].from

Closed(r, at) == [rows EXCEPT ![r].until = at, ![r].closed = clock]

SupersedeRow(r, at) ==
    /\ MayClose(r, at)
    /\ \E s \in RowId : Fresh(s) /\ Store([Closed(r, at) EXCEPT ![s] = Born(at, Open)])
    /\ UNCHANGED clock

ForgetRow(r, at) ==
    /\ MayClose(r, at)
    /\ Store(Closed(r, at))
    /\ UNCHANGED clock

EraseRow(r) ==
    /\ rows[r].state = "live"
    /\ Store([rows EXCEPT ![r] = [NoRow EXCEPT !.state = "gone", !.from = rows[r].from]])
    /\ UNCHANGED clock

Tick ==
    /\ clock < MaxTime
    /\ clock' = clock + 1
    /\ UNCHANGED <<rows, listing>>

----------------------------------------------------------------------------

\* The next rows after the cursor, in the order of the listing: each at the place
\* that the number of those before it gives it.  The query takes one more than
\* the page: the surplus says that there is another page.
Left(l) == {r \in Shown(rows, l.asOf, l.sys) : After(rows, l.cursor, r)}

Matching(l) ==
    LET earlier(r) == {s \in Left(l) : Before(rows, s, r)}
    IN  [i \in 1 .. Cardinality(Left(l)) |->
            CHOOSE r \in Left(l) : Cardinality(earlier(r)) = i - 1]

\* A count stops with an error at its page bound.
WithPage(l) ==
    LET found == Matching(l)
        more  == Len(found) > l.limit
        page  == IF more THEN SubSeq(found, 1, l.limit) ELSE found
    IN  [l EXCEPT !.items = @ \o page, !.pages = @ + 1,
                  !.cursor = IF more THEN <<Last(page)>> ELSE <<>>,
                  !.phase = IF ~more THEN "done"
                            ELSE IF l.counting /\ l.pages + 1 >= PageCap THEN "too_large"
                            ELSE "open"]

\* The valid-time lens is resolved once, on the first page.
FirstPage(asOf, sys, limit, counting) ==
    /\ listing.phase = "idle"
    /\ LET pinned == IF asOf = Unset THEN clock ELSE asOf
           shown  == Shown(rows, pinned, sys)
       IN  listing' = WithPage([NoListing EXCEPT
                !.asOf = pinned, !.sys = sys, !.begun = clock, !.limit = limit,
                !.counting = counting, !.standing = shown, !.ever = shown, !.first = shown])
    /\ UNCHANGED <<rows, clock>>

\* A cursor carries the query it was issued under; an omitted as_of is taken
\* from it, and any other difference is refused.
NextPage(asOf, sys) ==
    /\ listing.phase = "open"
    /\ listing' = IF asOf \in {Unset, listing.asOf} /\ sys = listing.sys
                  THEN WithPage(listing)
                  ELSE [listing EXCEPT !.phase = "refused"]
    /\ UNCHANGED <<rows, clock>>

\* count pages with its own lenses.
CountOn == listing.counting /\ NextPage(listing.asOf, listing.sys)

ListingNext ==
    \/ listing.phase \in {"idle", "open"}
       /\ \/ \E from \in Time, until \in Time \cup {Open} : PutRow(from, until)
          \/ \E r \in RowId, at \in Time : SupersedeRow(r, at) \/ ForgetRow(r, at)
          \/ \E r \in RowId : EraseRow(r)
          \/ Tick
    \/ \E a \in {Unset} \cup Time, s \in {Unset} \cup Time :
          \/ \E k \in Limits : FirstPage(a, s, k, FALSE)
          \/ FirstPage(a, s, CountLimit, TRUE)
          \/ ~listing.counting /\ NextPage(a, s)
    \/ CountOn

----------------------------------------------------------------------------

\* The pages of a finished listing, put together, name every row its lens
\* showed from the first page to the last, no row twice and none it never
\* showed, in one descending order; a count is their number.  Under a system
\* lens of the past not even a row written meanwhile can slip in.
EnumerationIsComplete ==
    listing.phase = "done" =>
        LET named == ToSet(listing.items)
        IN  /\ listing.standing \subseteq named
            /\ named \subseteq listing.ever
            /\ Cardinality(named) = Len(listing.items)
            /\ \A i, j \in DOMAIN listing.items :
                  i < j => Before(rows, listing.items[i], listing.items[j])
            /\ listing.sys \in 1 .. (listing.begun - 1) => named \subseteq listing.first

=============================================================================
