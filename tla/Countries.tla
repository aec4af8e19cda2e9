------------------------------- MODULE Countries -------------------------------
(***************************************************************************)
(* Countries, states, cities and city regions: how the seeders of several  *)
(* processes fill the tables, and what a client sees that reads a list     *)
(* page by page meanwhile.                                                 *)
(*                                                                         *)
(* A process is a replica, or a replica that was started again: it runs    *)
(* the seeder once.  Nothing joins the statements of a run in a            *)
(* transaction.  The file the seeder downloads has country 1, 2, ... in    *)
(* that order, and country c has the states 1..States[c]; the cities of a  *)
(* state are saved together.                                               *)
(***************************************************************************)
EXTENDS Listing, Sequences

CONSTANTS
    Process,
    States,       \* how many states each country of the file has
    Name,         \* the rank of a name: Name[<<c, 0>>] of country c, Name[<<c, s>>] of its state s
    Region,       \* the city regions that may be created
    PageSizes     \* the page sizes clients ask for

Country == DOMAIN States
Place == UNION {{c} \X (0..States[c]) : c \in Country}

ASSUME StatesAssumption == States \in Seq(Nat)
ASSUME NameAssumption == Name \in [Place -> Int]
ASSUME PageSizesAssumption == PageSizes \subseteq Nat \ {0}

VARIABLES
    seeder,     \* seeder[p]: the next statement of p's run
    places,     \* the countries and the states table: <<p, c, s>> was inserted by p
    cities,     \* the cities table: the rows of "places" whose cities are saved
    regions,    \* the city_regions table: region -> the row of its cities
    walk        \* a client that reads a list page by page

vars == <<seeder, places, cities, regions, walk>>

-----------------------------------------------------------------------------

Row == {<<p, x[1], x[2]>> : p \in Process, x \in Place}

Countries == {r \in places : r[3] = 0}

\* GET countries, and GET countries/:id/states of the country l.
All == <<>>
Rows(l) == IF l = All THEN Countries
           ELSE {r \in places : r[1] = l[1] /\ r[2] = l[2] /\ r[3] # 0}

\* addOrderBy(name, orderDir)
SortKey(desc) == [r \in Row |-> IF desc THEN Name[<<r[2], r[3]>>] ELSE -Name[<<r[2], r[3]>>]]

At(stage, c, s) == [stage |-> stage, c |-> c, s |-> s]
Done == At("done", 0, 0)

Position ==
    {At("new", 0, 0), At("download", 0, 0), Done, At("dead", 0, 0)}
      \union {At("country", c, 0) : c \in Country}
      \union {At(stage, x[1], x[2]) : stage \in {"state", "cities"},
                                      x \in {y \in Place : y[2] # 0}}

Running(p) == seeder[p].stage \in {"country", "state", "cities"}

NoWalk == [stage |-> "none"]

\* due: history, the rows at the walk's start.  items: a page was read, and its total is next.
Walk == [stage: {"items", "total", "done"}, list: {All} \union Row, desc: BOOLEAN,
         pageSize: PageSizes, page: Nat \ {0}, due: SUBSET Row, seen: SUBSET Row]

Init ==
    /\ seeder = [p \in Process |-> At("new", 0, 0)]
    /\ places = {} /\ cities = {} /\ regions = <<>>
    /\ walk = NoWalk

-----------------------------------------------------------------------------
\* The seeder.

Goto(p, position) == seeder' = [seeder EXCEPT ![p] = position]

\* run() ends without a word when a country is there, whoever saved it.
TestEmpty(p) ==
    /\ seeder[p].stage = "new"
    /\ Goto(p, IF Countries = {} THEN At("download", 0, 0) ELSE Done)
    /\ UNCHANGED <<places, cities, regions, walk>>

AfterCountry(c) == IF c < Len(States) THEN At("country", c + 1, 0) ELSE Done

\* Mutant of AfterState: the loop ends at states.length - 1.
AfterStateButLast(c, s) == IF s + 1 < States[c] THEN At("state", c, s + 1) ELSE AfterCountry(c)

AfterState(c, s) == IF s < States[c] THEN At("state", c, s + 1) ELSE AfterCountry(c)

Download(p) ==
    /\ seeder[p].stage = "download"
    /\ Goto(p, AfterCountry(0))
    /\ UNCHANGED <<places, cities, regions, walk>>

SaveCountry(p) ==
    /\ seeder[p].stage = "country"
    /\ places' = places \union {<<p, seeder[p].c, 0>>}
    /\ Goto(p, AfterState(seeder[p].c, 0))
    /\ UNCHANGED <<cities, regions, walk>>

SaveState(p) ==
    /\ seeder[p].stage = "state"
    /\ places' = places \union {<<p, seeder[p].c, seeder[p].s>>}
    /\ Goto(p, At("cities", seeder[p].c, seeder[p].s))
    /\ UNCHANGED <<cities, regions, walk>>

\* Mutant of SaveCities: a state is followed by the next country.
SaveCitiesOfCountry(p) ==
    /\ seeder[p].stage = "cities"
    /\ cities' = cities \union {<<p, seeder[p].c, 0>>}
    /\ Goto(p, AfterState(seeder[p].c, seeder[p].s))
    /\ UNCHANGED <<places, regions, walk>>

SaveCities(p) ==
    /\ seeder[p].stage = "cities"
    /\ cities' = cities \union {<<p, seeder[p].c, seeder[p].s>>}
    /\ Goto(p, AfterState(seeder[p].c, seeder[p].s))
    /\ UNCHANGED <<places, regions, walk>>

\* The download or a statement fails, which ends run(), or the process dies.
Die(p) ==
    /\ seeder[p].stage = "download" \/ Running(p)
    /\ Goto(p, At("dead", 0, 0))
    /\ UNCHANGED <<places, cities, regions, walk>>

\* POST cities/:id/regions
CreateCityRegion(n, r) ==
    /\ n \notin DOMAIN regions /\ r \in cities
    /\ regions' = [m \in DOMAIN regions \union {n} |-> IF m = n THEN r ELSE regions[m]]
    /\ UNCHANGED <<seeder, places, cities, walk>>

-----------------------------------------------------------------------------
\* A client that reads a list to its last page.

\* findAll(): the items of a page.  TypeORM spares the second query when the page is neither
\* full nor empty: it is the last one.
ReadItems(w) ==
    \E X \in Pages(Rows(w.list), SortKey(w.desc), w.page, w.pageSize) :
        /\ \/ walk' = [w EXCEPT !.seen = @ \union X, !.stage = "total"]
           \/ /\ X # {} /\ Cardinality(X) < w.pageSize
              /\ walk' = [w EXCEPT !.seen = @ \union X, !.stage = "done"]
        /\ UNCHANGED <<seeder, places, cities, regions>>

ReadFirstPage(l, desc, pageSize) ==
    /\ walk.stage \in {"none", "done"}
    /\ l = All \/ l \in Countries
    /\ ReadItems([stage |-> "items", list |-> l, desc |-> desc, pageSize |-> pageSize,
                  page |-> 1, due |-> Rows(l), seen |-> {}])

ReadNextPage == walk.stage = "items" /\ ReadItems(walk)

\* Mutant of ReadTotal: the total of the first page is kept for the other pages.
ReadFirstTotal ==
    /\ walk.stage = "total"
    /\ walk' = IF IsLast(Cardinality(walk.due), walk.page, walk.pageSize)
               THEN [walk EXCEPT !.stage = "done"]
               ELSE [walk EXCEPT !.stage = "items", !.page = @ + 1]
    /\ UNCHANGED <<seeder, places, cities, regions>>

\* findAll(): the total, by a query of its own, and whether the client goes on.
ReadTotal ==
    /\ walk.stage = "total"
    /\ walk' = IF IsLast(Cardinality(Rows(walk.list)), walk.page, walk.pageSize)
               THEN [walk EXCEPT !.stage = "done"]
               ELSE [walk EXCEPT !.stage = "items", !.page = @ + 1]
    /\ UNCHANGED <<seeder, places, cities, regions>>

-----------------------------------------------------------------------------

Seeding ==
    \E p \in Process :
        \/ TestEmpty(p) \/ Download(p) \/ Die(p)
        \/ SaveCountry(p) \/ SaveState(p) \/ SaveCities(p)

Walking ==
    \/ \E l \in {All} \union Row, desc \in BOOLEAN, pageSize \in PageSizes :
           ReadFirstPage(l, desc, pageSize)
    \/ ReadNextPage \/ ReadTotal

Next == Seeding \/ Walking \/ \E n \in Region, r \in Row : CreateCityRegion(n, r)

Spec == Init /\ [][Next]_vars

-----------------------------------------------------------------------------

TypeOK ==
    /\ seeder \in [Process -> Position]
    /\ places \subseteq Row
    /\ cities \subseteq {r \in places : r[3] # 0}
    /\ DOMAIN regions \subseteq Region /\ \A n \in DOMAIN regions : regions[n] \in cities
    /\ walk \in Walk \union {NoWalk}

\* Every row of the file, inserted by p.
Complete(p) ==
    \A x \in Place : <<p, x[1], x[2]>> \in places /\ (x[2] # 0 => <<p, x[1], x[2]>> \in cities)

\* A run that ended by itself, because it saved everything or because it found a country,
\* leaves a whole copy of the file behind, or another run that still saves one, or the
\* half of one that died: nothing else makes the tables miss a country, a state or a city.
HalfSeededNeedsDeath ==
    \A p \in Process : seeder[p] = Done =>
        \E q \in Process :
            \/ Complete(q) \/ Running(q)
            \/ seeder[q].stage = "dead" /\ \E r \in places : r[1] = q

\* A client that reads a list page by page to the last one has seen every row that was
\* there when it began, although the seeders insert rows before, between and after its
\* pages, and between the items of a page and their total.  Only rows whose names tie, like
\* the same country of two runs, may be missed.
PagesMissNothing ==
    walk.stage = "done" =>
        \A r \in walk.due \ walk.seen : Ties(Rows(walk.list), SortKey(walk.desc), r) # {}

=============================================================================
