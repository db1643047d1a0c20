----------------------------- MODULE Catalogue -----------------------------
(***************************************************************************)
(* The inventory of one campus as anonymous readers see it: properties,    *)
(* their unit types, the agents' offers for those, and media for all three.*)
(* Each write is the one statement that commits it; who may write, and     *)
(* what a write waits for, is the subject of PropertyCorrections,          *)
(* AgentOffers and MediaUpload.  Ids are numbers, for their order; the     *)
(* number of writes so far is the database's clock.                        *)
(***************************************************************************)
EXTENDS Naturals, FiniteSets, Functions

CONSTANTS
  Properties, UnitTypes, Offers, Media,   \* ids
  PropertyOf,   \* [UnitTypes -> Properties]
  UnitOf,       \* [Offers -> UnitTypes]
  TargetOf,     \* [Media -> the property, unit type or offer it shows]
  Images,       \* the media that are of kind image, the others being videos
  Prices,       \* in kobo
  MaxWrites     \* bound on the clock

Targets ==
  ({"property"} \X Properties) \cup ({"unit"} \X UnitTypes) \cup ({"offer"} \X Offers)

ASSUME IdAssumption ==
  Properties \cup UnitTypes \cup Offers \cup Media \cup Prices \subseteq Nat
\* A table has finitely many rows, whatever is ever written.
ASSUME FiniteAssumption ==
  /\ \A ids \in {Properties, UnitTypes, Offers, Media} : IsFiniteSet(ids)
  /\ MaxWrites \in Nat
ASSUME PlaceAssumption ==
  /\ PropertyOf \in [UnitTypes -> Properties]
  /\ UnitOf \in [Offers -> UnitTypes]
  /\ TargetOf \in [Media -> Targets]

VARIABLES
  writes,       \* the clock
  properties,   \* the rows, by id: when the row was created and last updated
  unitTypes,    \* likewise
  offers,       \* the offers that were made
  media         \* the media that were added

catalogue == <<writes, properties, unitTypes, offers, media>>

Times == [created : 0..MaxWrites, updated : 0..MaxWrites]
Offer == [price : Prices, status : {"available", "unavailable"},
          archived : BOOLEAN, updated : 0..MaxWrites]
Medium == [created : 0..MaxWrites, removed : BOOLEAN]

\* The partial functions from S to T.
IsTable(f, S, T) == DOMAIN f \subseteq S /\ \A x \in DOMAIN f : f[x] \in T

CatalogueOK ==
  /\ writes \in 0..MaxWrites
  /\ IsTable(properties, Properties, Times)
  /\ IsTable(unitTypes, UnitTypes, Times)
  /\ IsTable(offers, Offers, Offer)
  /\ IsTable(media, Media, Medium)
  /\ \A u \in DOMAIN unitTypes : PropertyOf[u] \in DOMAIN properties
  /\ \A o \in DOMAIN offers : UnitOf[o] \in DOMAIN unitTypes

\* The table with a row more, or with one row replaced.
Put(table, id, row) ==
  [x \in DOMAIN table \cup {id} |-> IF x = id THEN row ELSE table[x]]

\* now() of the transaction, which each write calls.
Tick == writes < MaxWrites /\ writes' = writes + 1
New == [created |-> writes', updated |-> writes']

\* Create.
CreateProperty(p) ==
  /\ Tick
  /\ p \notin DOMAIN properties
  /\ properties' = Put(properties, p, New)
  /\ UNCHANGED <<unitTypes, offers, media>>

\* CreatePropertyUnitType.
CreateUnitType(u) ==
  /\ Tick
  /\ u \notin DOMAIN unitTypes
  /\ PropertyOf[u] \in DOMAIN properties
  /\ unitTypes' = Put(unitTypes, u, New)
  /\ UNCHANGED <<properties, offers, media>>

\* Update; what the row says is left out but for its time.
UpdateProperty(p) ==
  /\ Tick
  /\ p \in DOMAIN properties
  /\ properties' = [properties EXCEPT ![p].updated = writes']
  /\ UNCHANGED <<unitTypes, offers, media>>

\* UpdatePropertyUnitType.
UpdateUnitType(u) ==
  /\ Tick
  /\ u \in DOMAIN unitTypes
  /\ unitTypes' = [unitTypes EXCEPT ![u].updated = writes']
  /\ UNCHANGED <<properties, offers, media>>

\* CreateAgentOffer.
CreateOffer(o, price, status) ==
  /\ Tick
  /\ o \notin DOMAIN offers
  /\ UnitOf[o] \in DOMAIN unitTypes
  /\ offers' = Put(offers, o, [price |-> price, status |-> status,
                               archived |-> FALSE, updated |-> writes'])
  /\ UNCHANGED <<properties, unitTypes, media>>

\* UpdateAgentOffer.
UpdateOffer(o, price, status) ==
  /\ Tick
  /\ o \in DOMAIN offers /\ ~offers[o].archived
  /\ offers' = [offers EXCEPT ![o].price = price, ![o].status = status,
                              ![o].updated = writes']
  /\ UNCHANGED <<properties, unitTypes, media>>

\* ArchiveAgentOffer.
ArchiveOffer(o) ==
  /\ Tick
  /\ o \in DOMAIN offers /\ ~offers[o].archived
  /\ offers' = [offers EXCEPT ![o].archived = TRUE, ![o].status = "unavailable",
                              ![o].updated = writes']
  /\ UNCHANGED <<properties, unitTypes, media>>

Exists(target) ==
  target \in {<<"property", p>> : p \in DOMAIN properties}
             \cup {<<"unit", u>> : u \in DOMAIN unitTypes}
             \cup {<<"offer", o>> : o \in DOMAIN offers}

\* CreateMediaBatch, once the objects are stored: all of one target.
AddMedia(target, ms) ==
  /\ Tick
  /\ ms # {} /\ ms \cap DOMAIN media = {}
  /\ Exists(target)
  /\ media' = [m \in DOMAIN media \cup ms |->
                IF m \in ms THEN [created |-> writes', removed |-> FALSE] ELSE media[m]]
  /\ UNCHANGED <<properties, unitTypes, offers>>

\* RemoveMedia.
RemoveMedia(m) ==
  /\ Tick
  /\ m \in DOMAIN media /\ ~media[m].removed
  /\ media' = [media EXCEPT ![m].removed = TRUE]
  /\ UNCHANGED <<properties, unitTypes, offers>>

Write ==
  \/ \E p \in Properties : CreateProperty(p) \/ UpdateProperty(p)
  \/ \E u \in UnitTypes : CreateUnitType(u) \/ UpdateUnitType(u)
  \/ \E o \in Offers, price \in Prices, status \in {"available", "unavailable"} :
       CreateOffer(o, price, status) \/ UpdateOffer(o, price, status)
  \/ \E o \in Offers : ArchiveOffer(o)
  \/ \E target \in Range(TargetOf) :
       \E ms \in SUBSET {m \in Media : TargetOf[m] = target} : AddMedia(target, ms)
  \/ \E m \in Media : RemoveMedia(m)

=============================================================================
