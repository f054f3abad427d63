---------------------------- MODULE Nomenclature ----------------------------
(***************************************************************************)
(* Search of items by profile, grade and sizes with the catalogue of       *)
(* grades (src/price_parser/nomenclature/: catalog.py, service.py,         *)
(* scoring.py).  Grades are their comparison keys.  A catalogue:           *)
(*   grades     a set of [id, key, status]                                 *)
(*   aliases    a sequence of [key, id, status]                            *)
(*   relations  a sequence of [source, target, type, status, both]         *)
(*   rules      a set of [profile, limits, status]; a limit of -1 is none    *)
(* A size or a unit that is not given is 0 or "".  Scores are in           *)
(* hundredths, a total score in four hundredths.                           *)
(***************************************************************************)
EXTENDS OfferSearch

CONSTANT Similarity(_, _)   \* fuzzy_similarity of two keys, in hundredths

Unlimited == 1000
Absolute(n) == IF n < 0 THEN -n ELSE n

\* What Catalog accepts (_validate_catalog), rejected records included.
IsValidCatalog(catalog) ==
  LET Ids == {g.id : g \in catalog.grades}
      Confirmed == {r \in catalog.rules : r.status = "CONFIRMED"}
  IN  /\ \A g, h \in catalog.grades : g # h => g.id # h.id /\ g.key # h.key
      /\ \A i \in DOMAIN catalog.aliases :
           LET a == catalog.aliases[i]
           IN  /\ a.id \in Ids
               /\ \A g \in catalog.grades : g.key = a.key => g.id = a.id
               /\ \A j \in DOMAIN catalog.aliases :
                    catalog.aliases[j].key = a.key => catalog.aliases[j].id = a.id
      /\ \A i \in DOMAIN catalog.relations :
           LET r == catalog.relations[i]
           IN  r.source \in Ids /\ r.target \in Ids /\ r.source # r.target
      /\ \A r \in catalog.rules : Len(r.limits) = 3 /\ \A i \in 1..3 : r.limits[i] >= -1
      /\ \A r, s \in Confirmed : r.profile = s.profile => r = s

\* A request as the classes carry it and load_inventory and SearchOptions let it in: sizes
\* are positive where they are given, an id is of one item, a similarity is a percentage.
IsInquiry(catalog, options, query, items) ==
  LET Keys == {query.grade} \cup {i.grade : i \in items} \cup {g.key : g \in catalog.grades}
              \cup {a.key : a \in Range(catalog.aliases)}
  IN  /\ catalog.aliases \in Seq(Range(catalog.aliases))
      /\ catalog.relations \in Seq(Range(catalog.relations))
      /\ options.limit \in 1..200
      /\ query.sizes \in [1..3 -> Nat]
      /\ IsFiniteSet(items)
      /\ \A i \in items : i.sizes \in [1..3 -> Nat] /\ {i.supplier, i.id} \subseteq Int
      /\ \A i, j \in items : i.id = j.id => i = j
      /\ \A key \in Keys : Similarity(query.grade, key) \in 0..100

-----------------------------------------------------------------------------
Unknown == [id |-> "", status |-> ""]

\* A canonical grade first, whatever its status; else the last alias not rejected.
ResolveGrade(catalog, key) ==
  LET direct == {g \in catalog.grades : g.key = key}
      named  == {i \in DOMAIN catalog.aliases :
                   catalog.aliases[i].key = key /\ catalog.aliases[i].status # "REJECTED"}
      Brief(record) == [id |-> record.id, status |-> record.status]
  IN  CASE direct # {} -> Brief(CHOOSE g \in direct : TRUE)
        [] direct = {} /\ named # {} -> Brief(catalog.aliases[Max(named)])
        [] OTHER -> Unknown

MatchValues(catalog, id) ==
  {g.key : g \in {h \in catalog.grades : h.id = id}}
  \cup {a.key : a \in {b \in Range(catalog.aliases) : b.id = id /\ b.status # "REJECTED"}}

\* Mutant: a relation holds in both directions.
RelatesEitherWay(r, source, target) == {r.source, r.target} = {source, target}

Relates(r, source, target) ==
  \/ r.source = source /\ r.target = target
  \/ r.both /\ r.source = target /\ r.target = source

\* The first that is not rejected; 0 if there is none.
Relation(catalog, source, target) ==
  SelectInSeq(catalog.relations,
              LAMBDA r : r.status # "REJECTED" /\ Relates(r, source, target))

-----------------------------------------------------------------------------
GradeMatch(type, score, review) == [type |-> type, score |-> score, review |-> review]
NoMatch == GradeMatch("NONE", 0, TRUE)

RelationMatch(r, options) ==
  CASE r.status = "CONFIRMED" -> GradeMatch("CONFIRMED_EQUIVALENT", 90, r.type # "EQUIVALENT")
    [] r.status = "PROPOSED" /\ options.proposed -> GradeMatch("PROPOSED_EQUIVALENT", 72, TRUE)
    [] OTHER -> NoMatch

\* The best spelling of the item's grade.
BestFuzzy(catalog, wanted, grade) ==
  LET id == ResolveGrade(catalog, grade).id
  IN  Max({Similarity(wanted, key) : key \in {grade} \cup MatchValues(catalog, id)})

MatchGrade(catalog, options, wanted, grade) ==
  LET asked    == ResolveGrade(catalog, wanted)
      found    == ResolveGrade(catalog, grade)
      relation == IF asked.id = "" \/ found.id = "" THEN 0
                  ELSE Relation(catalog, asked.id, found.id)
      fuzzy    == BestFuzzy(catalog, wanted, grade)
  IN  CASE wanted = grade -> GradeMatch("EXACT", 100, FALSE)
        [] wanted # grade /\ asked.id # "" /\ asked.id = found.id ->
             GradeMatch("ALIAS", 97, {asked.status, found.status} # {"CONFIRMED"})
        [] asked.id # found.id /\ relation # 0 ->
             RelationMatch(catalog.relations[relation], options)
        [] OTHER ->
             IF options.fuzzy /\ fuzzy >= options.threshold
             THEN GradeMatch("FUZZY", IF fuzzy < 84 THEN fuzzy ELSE 84, TRUE) ELSE NoMatch

-----------------------------------------------------------------------------
Given(sizes) == {i \in 1..3 : sizes[i] # 0}

UnitsCompatible(query, item) ==
  \A i \in 1..3 : query.units[i] = "" \/ item.units[i] = "" \/ query.units[i] = item.units[i]

IsExactSize(query, item) ==
  UnitsCompatible(query, item) /\ \A i \in Given(query.sizes) : item.sizes[i] = query.sizes[i]

\* The mean closeness of the sizes asked for; a fraction is cut off.
Closeness(query, item) ==
  LET Asked == Given(query.sizes)
      Of(i) == Max({0, 100 - (100 * Absolute(query.sizes[i] - item.sizes[i])) \div query.sizes[i]})
      Part(i) == IF i \in Asked THEN Of(i) ELSE 0
  IN  IF \E i \in Asked : item.sizes[i] = 0 THEN 0
      ELSE (Part(1) + Part(2) + Part(3)) \div Cardinality(Asked)

Score(match, query, item) ==
  IF Given(query.sizes) = {} THEN 4 * match.score ELSE 3 * match.score + Closeness(query, item)

\* The rule of the profile asked for, if a confirmed one exists.
IsNearSize(catalog, options, query, item) ==
  LET rules == {r \in catalog.rules : r.profile = query.profile /\ r.status = "CONFIRMED"}
  IN  /\ Closeness(query, item) > 0
      /\ rules = {} => options.unconfigured
      /\ \A r \in rules : \A i \in Given(query.sizes) :
           Absolute(query.sizes[i] - item.sizes[i]) <= r.limits[i]

-----------------------------------------------------------------------------
Result(item, match, near, query) ==
  [item |-> item, grade |-> match.type, type |-> IF near THEN "NEAR_DIMENSION" ELSE match.type,
   review |-> near \/ match.review, score |-> Score(match, query, item),
   gradeScore |-> match.score, tie |-> FALSE,
   deltas |-> [i \in 1..3 |-> IF query.sizes[i] = 0 \/ item.sizes[i] = 0 THEN Unlimited
                              ELSE Absolute(query.sizes[i] - item.sizes[i])]]

\* An item of the right size, whatever its grade, hides every other size.
Results(catalog, options, query, items) ==
  LET Match(item) == MatchGrade(catalog, options, query.grade, item.grade)
      candidates == {item \in items : item.profile \in Variants(query.profile)
                                      /\ Match(item) # NoMatch}
      exact == {item \in candidates : IsExactSize(query, item)}
      near  == {item \in candidates \ exact : IsNearSize(catalog, options, query, item)}
      sized == Given(query.sizes) # {}
  IN  CASE ~sized -> {Result(item, Match(item), FALSE, query) : item \in candidates}
        [] sized /\ exact # {} -> {Result(item, Match(item), FALSE, query) : item \in exact}
        [] OTHER -> {Result(item, Match(item), TRUE, query) : item \in near}

Priority == <<"EXACT", "ALIAS", "CONFIRMED_EQUIVALENT", "PROPOSED_EQUIVALENT", "FUZZY",
              "NEAR_DIMENSION">>

PriorityOf(type) == SelectInSeq(Priority, LAMBDA t : t = type)

SortKey(r) ==
  <<PriorityOf(r.type), IF r.review THEN 1 ELSE 0, -r.score,
    r.deltas[1], r.deltas[2], r.deltas[3], r.item.supplier, r.item.id>>

\* Fuzzy results of one score but of several grades are marked.
MarkTies(results) ==
  LET Tied(r, s) == /\ r.type = "FUZZY" /\ s.type = "FUZZY" /\ r.item.grade # s.item.grade
                    /\ r.gradeScore = s.gradeScore /\ r.score = s.score
  IN  {[r EXCEPT !.tie = \E s \in results : Tied(r, s)] : r \in results}

Search(catalog, options, query, items) ==
  LET marked == MarkTies(Results(catalog, options, query, items))
      sorted == Ordered([r \in marked |-> SortKey(r)])
  IN  SubSeq(sorted, 1, Min({Len(sorted), options.limit}))
=============================================================================
