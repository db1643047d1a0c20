----------------------------- MODULE MCReaders -----------------------------
\* The two things a reader does, side by side: looking at pages of the catalogue,
\* and asking about an offer.  They share no variable, so each behaviour is one
\* of either; the other does not begin.
EXTENDS Browsing, InquirySubmission, TLC

CONSTANTS u1, u2, o1, o2

\* Two unit types of one property, with two offers and one, and a property of
\* which nothing is known; an image of a property, a video of an offer.
MCPropertyOf == [u \in {1, 2} |-> 1]
MCUnitOf == [o \in {1, 2, 3} |-> IF o = 3 THEN 2 ELSE 1]
MCTargetOf == [m \in {1, 2} |-> IF m = 1 THEN <<"property", 1>> ELSE <<"offer", 1>>]
MCCompleteness == [u \in {1, 2} |-> 1]

\* Each sort key on one of the lists, every choice of offers, and price ranges:
\* 3 naira are beyond the column, and 11 naira wrap to 1.
MCSearches ==
  LET Lists(list, sorts, offered, ranges, size) ==
        {[list |-> list, sort |-> sort, offered |-> o, min |-> range[1], max |-> range[2],
          size |-> size] : sort \in sorts, o \in offered, range \in ranges}
      NoRange == {<<0, 0>>}
      Ranges == {<<2, 0>>, <<0, 1>>, <<1, 3>>, <<0, 11>>}
  IN Lists("discover", TimeSorts \cup PriceSorts, {"all"}, NoRange, 1)
     \cup Lists("discover", {"recommended"}, {"all", "yes"}, NoRange, 1)
     \cup Lists("discover", {"lowest_price_kobo"}, {"all"}, Ranges, 2)
     \cup Lists("properties", CountSorts, {"all"}, NoRange, 1)
     \cup Lists("properties", {"-created_at"}, {"yes", "no"}, NoRange, 2)
     \cup Lists("properties", {"-lowest_price_kobo"}, {"all"}, NoRange \cup Ranges, 1)

\* o1 is another user's offer, o2 the student's own.
MCAgentUser == o1 :> u2 @@ o2 :> u1

\* An empty catalogue that nobody looks at; no question, and offers to be had.
NoBrowsing == writes = 0 /\ properties = << >> /\ view = Blank
NoAsking == Init /\ \A o \in OfferIds : offer[o] = "available"

ReadersInit == (BrowsingInit /\ NoAsking) \/ (BrowsingInit /\ NoBrowsing /\ Init)
ReadersNext ==
  \/ NoAsking /\ BrowsingNext /\ UNCHANGED vars
  \/ NoBrowsing /\ Next /\ UNCHANGED browsingVars
ReadersSpec == ReadersInit /\ [][ReadersNext]_<<browsingVars, vars>>

Symmetry == Permutations(Messages) \cup Permutations(Submissions) \cup Permutations(Requests)
=============================================================================
