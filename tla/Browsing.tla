------------------------------ MODULE Browsing ------------------------------
(***************************************************************************)
(* A reader of the catalogue: a walk over the pages of the discovery list  *)
(* (discover) or of the property list (listProperties), one statement for  *)
(* each page, or the page of one property (GetWithDetails), which up to    *)
(* six statements put together outside any transaction, while others write.*)
(*                                                                         *)
(* The text filters (search, area, categories, structure) choose among the *)
(* rows by what never changes here, and are left out, as are the sort keys *)
(* name and area, which work like created_at.                              *)
(***************************************************************************)
EXTENDS Catalogue, Integers, FiniteSetsExt, SequencesExt

CONSTANTS
  Completeness,   \* [UnitTypes -> Nat], how much its description says
  MaxInt4,        \* the greatest value of an integer column
  MaxInt,         \* the greatest int of the server
  Searches,       \* the queries that readers make
  MaxPage         \* bound on the page a reader asks for

ASSUME CompletenessAssumption == Completeness \in [UnitTypes -> Nat]
ASSUME PriceAssumption == MaxInt4 \in Nat /\ \A price \in Prices : price =< MaxInt4
ASSUME IntAssumption == MaxInt \in Nat
VARIABLE view   \* what the reader has on the screen, or is being sent

browsingVars == <<catalogue, view>>

-----------------------------------------------------------------------------
(* The rows of the two lists *)

UnitsOf(p) == {u \in DOMAIN unitTypes : PropertyOf[u] = p}

AvailableOffers(u) ==
  {o \in DOMAIN offers :
     UnitOf[o] = u /\ offers[o].status = "available" /\ ~offers[o].archived}

\* MIN, with an empty set for NULL.
Least(S) == IF S = {} THEN {} ELSE {Min(S)}
PricesOf(os) == {offers[o].price : o \in os}

\* ORDER BY created_at, id LIMIT 1.
Earliest(ms) ==
  {m \in ms : \A n \in ms \ {m} :
     \/ media[m].created < media[n].created
     \/ media[m].created = media[n].created /\ m < n}

MediaAt(targets) == {m \in DOMAIN media : ~media[m].removed /\ TargetOf[m] \in targets}

\* A row of DiscoverProperties: an image of the unit type is preferred.
UnitCard(u) ==
  LET os == AvailableOffers(u)
      own == MediaAt({<<"unit", u>>}) \cap Images
      shared == MediaAt({<<"property", PropertyOf[u]>>}) \cap Images
      changes == {properties[PropertyOf[u]].updated, unitTypes[u].updated}
                 \cup {offers[o].updated : o \in os}
  IN [count |-> Cardinality(os), lowest |-> Least(PricesOf(os)),
      thumbnail |-> Earliest(IF own # {} THEN own ELSE shared),
      created |-> properties[PropertyOf[u]].created, updated |-> Max(changes)]

\* A row of ListWithSummary: any media of the property, its unit types and
\* its offers will do.
PropertyCard(p) ==
  LET os == UNION {AvailableOffers(u) : u \in UnitsOf(p)}
      shown == {o \in DOMAIN offers : UnitOf[o] \in UnitsOf(p) /\ ~offers[o].archived}
  IN [count |-> Cardinality(os), lowest |-> Least(PricesOf(os)),
      thumbnail |-> Earliest(MediaAt(
        {<<"property", p>>} \cup {<<"unit", u>> : u \in UnitsOf(p)}
        \cup {<<"offer", o>> : o \in shown})),
      created |-> properties[p].created, updated |-> properties[p].updated]

-----------------------------------------------------------------------------
(* One page of a list *)

PriceSorts == {"lowest_price_kobo", "-lowest_price_kobo"}
TimeSorts == {"created_at", "-created_at"}
CountSorts == {"available_offer_count", "-available_offer_count"}

\* The SortSafelist of each handler, through its SortColumnMap.  Prices are in
\* naira; readInt takes any int, and those that are not positive are no filter.
Queries ==
  [list : {"discover"}, sort : {"recommended"} \cup TimeSorts \cup PriceSorts,
   offered : {"all", "yes"}, min : 0..MaxInt, max : 0..MaxInt, size : Nat \ {0}]
  \cup
  [list : {"properties"}, sort : TimeSorts \cup PriceSorts \cup CountSorts,
   offered : {"all", "yes", "no"}, min : 0..MaxInt, max : 0..MaxInt, size : Nat \ {0}]

ASSUME SearchAssumption == Searches \subseteq Queries /\ MaxPage \in Nat

Card(q, x) == IF q.list = "discover" THEN UnitCard(x) ELSE PropertyCard(x)

\* The product wraps.
Kobo(naira) == ((naira * 100 + MaxInt + 1) % (2 * (MaxInt + 1))) - (MaxInt + 1)

\* Zero stands for a filter that is absent.  NULL is in no range.
Filtered(q) ==
  {x \in IF q.list = "discover" THEN DOMAIN unitTypes ELSE DOMAIN properties :
     LET card == Card(q, x) IN
     /\ q.offered = "yes" => card.count > 0
     /\ q.offered = "no" => card.count = 0
     /\ q.min > 0 => \E price \in card.lowest : price >= Kobo(q.min)
     /\ q.max > 0 => \E price \in card.lowest : price =< Kobo(q.max)}

Yes(condition) == IF condition THEN 1 ELSE 0

\* A price as a sort key, NULLS LAST; up is -1 for descending.
PriceKey(up, lowest) == IF lowest = {} THEN MaxInt4 + 1 ELSE up * Min(lowest)

\* What ORDER BY compares, but for the id; the greatest is last.
SortKey(q, x) ==
  LET card == Card(q, x) IN
  CASE q.sort = "recommended" ->
         <<-Yes(card.count > 0), -Yes(card.thumbnail # {}), -Completeness[x],
           -card.updated, -card.count>>
    [] q.sort = "created_at" -> <<card.created>>
    [] q.sort = "-created_at" -> <<-card.created>>
    [] q.sort = "lowest_price_kobo" -> <<PriceKey(1, card.lowest)>>
    [] q.sort = "-lowest_price_kobo" -> <<PriceKey(-1, card.lowest)>>
    [] q.sort = "available_offer_count" -> <<card.count>>
    [] q.sort = "-available_offer_count" -> <<-card.count>>

Smaller(s, t) ==
  \E i \in DOMAIN s : s[i] < t[i] /\ \A j \in 1..(i - 1) : s[j] = t[j]

\* (fault) No tie-break: rows with the same sort key come in any order.
BeforeByKey(key, x, y) == Smaller(key[x], key[y])

\* ORDER BY ..., id.
Before(key, x, y) == Smaller(key[x], key[y]) \/ (key[x] = key[y] /\ x < y)

\* The orders that ORDER BY leaves to the database.
Orders(q) ==
  LET key == [x \in Filtered(q) |-> SortKey(q, x)]
      n == Cardinality(DOMAIN key)
  IN {s \in [1..n -> DOMAIN key] :
        \A i, j \in 1..n : i < j => s[i] # s[j] /\ ~Before(key, s[j], s[i])}

\* Filters.Offset.
Offset(page, size) == (page - 1) * size

NoMetadata == [page |-> 0, size |-> 0, last |-> 0, total |-> 0]

\* CalculateMetadata; a page past the end has no row that tells the total.
Metadata(total, page, size) ==
  IF total = 0 THEN NoMetadata
  ELSE [page |-> page, size |-> size, last |-> (total + size - 1) \div size, total |-> total]

\* The parameters of the query are of the type of the price column.
Overflows(q) ==
  \E naira \in {q.min, q.max} : Kobo(naira) \notin (-MaxInt4 - 1)..MaxInt4

\* What is sent for a page, if the database chose this order.
Answer(q, page, order) ==
  LET end == Min({Offset(page, q.size) + q.size, Len(order)})
      items == SubSeq(order, Offset(page, q.size) + 1, end)
      total == IF items = <<>> THEN 0 ELSE Len(order)
  IN [status |-> 200, items |-> items, metadata |-> Metadata(total, page, q.size)]

Failed == [status |-> 500, items |-> <<>>, metadata |-> NoMetadata]

Answers(q, page) ==
  IF Overflows(q) THEN {Failed} ELSE {Answer(q, page, order) : order \in Orders(q)}

-----------------------------------------------------------------------------
(* The reader *)

Blank == [kind |-> "blank"]
NoPages == [page \in {} |-> Failed]

\* The first request of a walk, from a link that can name any page.
Search(q, page) ==
  /\ view = Blank
  /\ \E answer \in Answers(q, page) :
       view' = [kind |-> "walk", query |-> q, pages |-> Put(NoPages, page, answer)]
  /\ UNCHANGED catalogue

\* Another page of the same list.
Turn(page) ==
  /\ view.kind = "walk" /\ page \notin DOMAIN view.pages
  /\ \E answer \in Answers(view.query, page) :
       view' = [view EXCEPT !.pages = Put(@, page, answer)]
  /\ UNCHANGED catalogue

UnarchivedOffers(us) == {o \in DOMAIN offers : UnitOf[o] \in us /\ ~offers[o].archived}

\* Rows as a page shows them, with the table they are from.
PropertyRows(p) == {<<"property", p, properties[p]>>}
UnitRows(p) == {<<"unit", u, unitTypes[u]>> : u \in UnitsOf(p)}
OfferRows(us) == {<<"offer", o, offers[o]>> : o \in UnarchivedOffers(us)}
MediaRows(targets) == {<<"media", m, media[m]>> : m \in MediaAt(targets)}

\* The rows of this moment that a page of p may show.  They include media of
\* archived offers, which an offer can still get: the page shows those if it
\* read the offer before.
Rows(p) ==
  LET us == UnitsOf(p)
      os == {o \in DOMAIN offers : UnitOf[o] \in us}
  IN PropertyRows(p) \cup UnitRows(p) \cup OfferRows(us)
     \cup MediaRows({<<"property", p>>} \cup {<<"unit", u>> : u \in us}
                   \cup {<<"offer", o>> : o \in os})

Name(row) == <<row[1], row[2]>>
Named(rows) == {Name(row) : row \in rows}
Ids(rows, table) == {row[2] : row \in {r \in rows : r[1] = table}}

\* GetProperty.  The view remembers when the request began, the rows that
\* were there since then, and the names of those that were there all along.
OpenProperty(p) ==
  /\ view = Blank
  /\ view' = IF p \in DOMAIN properties
             THEN [kind |-> "detail", property |-> p, next |-> "unit types",
                   shown |-> PropertyRows(p), since |-> writes,
                   ever |-> Rows(p), always |-> Named(Rows(p))]
             ELSE Blank
  /\ UNCHANGED catalogue

\* One statement of the request, and what it leaves to read.
Read(now, rows, next) ==
  /\ view.kind = "detail" /\ view.next = now
  /\ view' = [view EXCEPT !.shown = @ \cup rows, !.next = next]
  /\ UNCHANGED catalogue

Targeted(table) == {<<table, id>> : id \in Ids(view.shown, table)}

\* ListPropertyUnitTypesByProperty.
ReadUnitTypes == Read("unit types", UnitRows(view.property), "property media")

\* ListMediaByProperty.
ReadPropertyMedia ==
  Read("property media", MediaRows({<<"property", view.property>>}),
       IF Ids(view.shown, "unit") = {} THEN "nothing" ELSE "unit media")

\* (fault) The offers are read only if the unit types have media.
ReadUnitMediaFirst ==
  LET rows == MediaRows(Targeted("unit"))
  IN Read("unit media", rows, IF rows = {} THEN "nothing" ELSE "offers")

\* ListMediaByPropertyUnitTypeIDs.
ReadUnitMedia == Read("unit media", MediaRows(Targeted("unit")), "offers")

\* ListAgentOfferDetailsByPropertyUnitTypeIDs.
ReadOffers ==
  LET rows == OfferRows(Ids(view.shown, "unit"))
  IN Read("offers", rows, IF rows = {} THEN "nothing" ELSE "offer media")

\* ListMediaByAgentOfferIDs.
ReadOfferMedia == Read("offer media", MediaRows(Targeted("offer")), "nothing")

\* The reader goes elsewhere, or a statement failed and there is nothing to see.
Leave ==
  /\ view # Blank
  /\ view' = Blank
  /\ UNCHANGED catalogue

\* A write while a property is read.
WriteUnderDetail(p) ==
  /\ view.kind = "detail" /\ view.next # "nothing" /\ view.property = p
  /\ Write
  /\ view' = [view EXCEPT !.ever = @ \cup Rows(p)',
                         !.always = @ \cap Named(Rows(p)')]

\* A write that no page on the screen depends on.  A walk ends when something
\* is written: pages are only ever compared with pages of the same catalogue,
\* and what is read after a write counts as a walk that begins there.
WriteUnseen == Write /\ view = Blank /\ UNCHANGED view

\* Any campus that was filled before the first moment, with offers at one price
\* and no media yet.
BrowsingInit ==
  /\ writes = 0
  /\ \E ps \in SUBSET Properties : properties = [p \in ps |-> [created |-> 0, updated |-> 0]]
  /\ \E us \in SUBSET {u \in UnitTypes : PropertyOf[u] \in DOMAIN properties} :
       unitTypes = [u \in us |-> [created |-> 0, updated |-> 0]]
  /\ \E price \in Prices, made \in SUBSET {o \in Offers : UnitOf[o] \in DOMAIN unitTypes} :
       offers = [o \in made |-> [price |-> price, status |-> "available",
                                 archived |-> FALSE, updated |-> 0]]
  /\ media = [m \in {} |-> 0]
  /\ view = Blank

BrowsingNext ==
  \/ \E q \in Searches, page \in 1..MaxPage : Search(q, page)
  \/ \E page \in 1..MaxPage : Turn(page)
  \/ \E p \in Properties : OpenProperty(p)
  \/ ReadUnitTypes \/ ReadPropertyMedia \/ ReadUnitMedia
  \/ ReadOffers \/ ReadOfferMedia \/ Leave
  \/ (\E p \in Properties : WriteUnderDetail(p)) \/ WriteUnseen

BrowsingSpec == BrowsingInit /\ [][BrowsingNext]_browsingVars

-----------------------------------------------------------------------------

\* The rows a query asks for, said of the offers rather than of aggregates:
\* no available offer is below the lower price, and one is not above the
\* upper price.
Wanted(q) ==
  LET AvailableFor(x) ==
        IF q.list = "discover" THEN AvailableOffers(x)
        ELSE {o \in DOMAIN offers : PropertyOf[UnitOf[o]] = x /\ o \in AvailableOffers(UnitOf[o])}
      Ranged(os) ==
        /\ q.min > 0 \/ q.max > 0 => os # {}
        /\ \A o \in os : q.min > 0 => offers[o].price >= q.min * 100
        /\ q.max > 0 => \E o \in os : offers[o].price =< q.max * 100
  IN {x \in IF q.list = "discover" THEN DOMAIN unitTypes ELSE DOMAIN properties :
        /\ q.offered # "all" => (q.offered = "yes") = (AvailableFor(x) # {})
        /\ Ranged(AvailableFor(x))}

\* A price that can be said in kobo.
Exact(naira) == naira * 100 <= MaxInt

\* As long as nobody writes, the pages of a list are pieces of one list:
\* nothing is on two of them, nothing sorts before what an earlier page
\* shows, all the pages together show what was asked for, and each page
\* that is not past the end says how many there are (Discover,
\* ListWithSummary, Offset and CalculateMetadata).  Prices whose product wraps
\* are excepted: the list is then that of another price.
PagesPartition ==
  /\ view.kind = "walk" /\ Exact(view.query.min) /\ Exact(view.query.max)
  /\ \A page \in DOMAIN view.pages : view.pages[page].status = 200
  =>
    LET q == view.query
        pages == view.pages
        last == (Cardinality(Wanted(q)) + q.size - 1) \div q.size
        ItemsOn(page) == Range(pages[page].items)
    IN /\ \A i, j \in DOMAIN pages : i < j =>
            \A x \in ItemsOn(i), y \in ItemsOn(j) :
              x # y /\ ~Smaller(SortKey(q, y), SortKey(q, x))
       /\ 1..last \subseteq DOMAIN pages =>
            UNION {ItemsOn(page) : page \in DOMAIN pages} = Wanted(q)
       /\ \A page \in DOMAIN pages :
            pages[page].metadata =
              IF page > last THEN NoMetadata
              ELSE [page |-> page, size |-> q.size, last |-> last,
                    total |-> Cardinality(Wanted(q))]

\* The pages on the screen are answers of the catalogue as it is: nothing is
\* written while they are compared.
WalkOfItsTime ==
  view.kind = "walk" =>
    /\ view = [kind |-> "walk", query |-> view.query, pages |-> view.pages]
    /\ view.query \in Searches
    /\ \A page \in DOMAIN view.pages :
         page \in 1..MaxPage /\ view.pages[page] \in Answers(view.query, page)

\* The types of the catalogue and of the view, and the pages of lists.
BrowsingInv ==
  /\ CatalogueOK
  /\ view.kind \in {"blank", "walk", "detail"}
  /\ WalkOfItsTime
  /\ PagesPartition

\* Those of the names whose offer, if they are media of one, is among them.
Kept(names) ==
  {name \in names :
     (name[1] = "media" /\ TargetOf[name[2]][1] = "offer") => TargetOf[name[2]] \in names}

\* What a page made of several statements shows was there at some moment of
\* its request, and it shows all that was there throughout.
DetailOfItsTime ==
  /\ view.shown \subseteq view.ever
  /\ Kept(view.always) \subseteq Named(view.shown)

\* If nothing was written meanwhile, the page agrees with the cards that lead
\* to it: their counts, their lowest prices and their thumbnails.
DetailMatchesCards ==
  LET shown == view.shown
      OffersFor(u) == {row \in shown : row[1] = "offer" /\ UnitOf[row[2]] = u
                                       /\ row[3].status = "available"}
      AgreesWith(card, rows) ==
        /\ card.count = Cardinality(rows)
        /\ card.lowest = Least({row[3].price : row \in rows})
        /\ card.thumbnail \subseteq Ids(shown, "media")
  IN /\ \A u \in UnitsOf(view.property) : AgreesWith(UnitCard(u), OffersFor(u))
     /\ AgreesWith(PropertyCard(view.property),
                   UNION {OffersFor(u) : u \in UnitsOf(view.property)})

\* While the page of p is read: the rows of this moment are among those the
\* view remembers, which are no others as long as nobody writes.
RowsRemembered(p) ==
  LET rows == Rows(p) IN
  /\ view = [kind |-> "detail", property |-> p, next |-> view.next,
             shown |-> view.shown, since |-> view.since,
             ever |-> view.ever, always |-> view.always]
  /\ p \in DOMAIN properties /\ view.since \in 0..writes
  /\ view.shown \cup rows \subseteq view.ever
  /\ view.always \subseteq Named(rows)
  /\ view.since = writes => view.ever = rows /\ view.always = Named(rows)

\* What is shown belongs to the property, and what was there all along came
\* with its unit type.
PlacesRemembered(p) ==
  /\ Ids(view.shown, "unit") \subseteq UnitsOf(p)
  /\ \A o \in Ids(view.shown, "offer") : o \in DOMAIN offers /\ UnitOf[o] \in UnitsOf(p)
  /\ \A name \in view.always :
       /\ name[1] = "offer" => <<"unit", UnitOf[name[2]]>> \in view.always
       /\ name[1] = "media" /\ TargetOf[name[2]][1] = "unit" => TargetOf[name[2]] \in view.always

In(names, table) == {name \in names : name[1] = table}
MediaIn(names, table) == {name \in In(names, "media") : TargetOf[name[2]][1] = table}

\* Each statement has shown what it reads of what was there all along.
ShownInTurn ==
  LET names == Named(view.shown) IN
  /\ In(view.always, "property") \subseteq names
  /\ view.next # "unit types" => In(view.always, "unit") \subseteq names
  /\ view.next \notin {"unit types", "property media"} =>
       MediaIn(view.always, "property") \subseteq names
  /\ view.next \in {"offers", "offer media", "nothing"} =>
       MediaIn(view.always, "unit") \subseteq names
  /\ view.next \in {"offer media", "nothing"} => In(view.always, "offer") \subseteq names
  /\ view.next = "nothing" => MediaIn(Kept(view.always), "offer") \subseteq names

\* GetWithDetails, read from start to end while others write, and compared
\* with Discover and ListWithSummary when nobody did.
DetailsHold ==
  view.kind = "detail" =>
    /\ \E p \in Properties : RowsRemembered(p) /\ PlacesRemembered(p)
    /\ ShownInTurn
    /\ view.next = "nothing" =>
         /\ DetailOfItsTime
         /\ view.since = writes => DetailMatchesCards

=============================================================================
