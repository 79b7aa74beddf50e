-------------------------------- MODULE Address --------------------------------
(* From the address that Kmaleon has of a client to the judicial district of *)
(* the form: provinces and comunidades by their INE codes, and a reviewed    *)
(* catalogue of the firm that maps a municipality to its partido judicial.   *)
(* A place name is a sequence of words, commas and a remark in parentheses.  *)
EXTENDS Integers, FiniteSets, Sequences

CONSTANTS
  Readings,  \* what a request may find: a catalogue file (a sequence of partidos,
             \* <<>> when none is configured) and the address in the record
  MaxMoves   \* bound: times the case moves on meanwhile

(* The comunidad of each of the 52 provinces, in the order of their codes.   *)
ComunidadOf ==
  << 16, 8, 10, 1, 7, 11, 4, 9, 7, 11, 1, 10, 8, 1, 12, 8, 9, 1, 8, 16, 1, 2, 1, 7, 9, 17,
     12, 13, 1, 14, 15, 12, 3, 7, 5, 12, 7, 5, 6, 7, 1, 7, 9, 2, 8, 10, 7, 16, 7, 2, 18, 19 >>
Comunidades == 1 .. 19
Nothing == 0   \* a field that is empty
Unknown == -1  \* a field that holds what no table knows
ByCode(c) == IF c \in DOMAIN ComunidadOf THEN c ELSE Unknown
ByName(n) == IF n \in DOMAIN ComunidadOf THEN n ELSE Unknown

(* ----------------------------- place names ----------------------------- *)
Articles == {"el", "la", "los", "las", "a", "o"}
Remark == "(sierra)"
Words(r) == SelectSeq([i \in DOMAIN r |-> IF r[i] = Remark THEN "sierra" ELSE r[i]], LAMBDA w : w # ",")
Bare(r) == SelectSeq(r, LAMBDA w : w # Remark)
(* "Coruña, A" is also "A Coruña".                                           *)
Moved(r) ==
  LET n == Len(r)
  IN  IF n >= 3 /\ r[n] \in Articles /\ r[n - 1] = "," THEN {<<r[n]>> \o Words(SubSeq(r, 1, n - 2))} ELSE {}
(* The spellings of a name, the one as it is written first.                  *)
MunicipalityKeys(r) ==
  LET rest == ({Words(Bare(r))} \cup Moved(r) \cup Moved(Bare(r))) \ {<<>>}
  IN  IF Words(r) = <<>> THEN {} ELSE {Words(r)} \cup rest
Rank(r, k) == IF k = Words(r) THEN 1 ELSE IF k = Words(Bare(r)) THEN 2 ELSE IF k \in Moved(r) THEN 3 ELSE 4

(* --------------------------- the catalogue ----------------------------- *)
(* Every place of the catalogue in the order in which it is indexed.         *)
Places(file) == {p \in (DOMAIN file) \X (1 .. 3) : p[2] \in DOMAIN file[p[1]].towns}
Before(p, q) == p[1] < q[1] \/ (p[1] = q[1] /\ p[2] < q[2])
Has(file, p, k) == k \in MunicipalityKeys(file[p[1]].towns[p[2]])
Named(file, code, k) == {p \in Places(file) : file[p[1]].province = code /\ Has(file, p, k)}
Mut_Conflict(file, p, q) == file[p[1]].name # file[q[1]].name /\ p[1] = q[1]
Conflict(file, p, q) == file[p[1]].name # file[q[1]].name
FromCatalog(file) ==
  /\ \A i \in DOMAIN file : file[i].province \in DOMAIN ComunidadOf
  /\ \A p, q \in Places(file) :
       (file[p[1]].province = file[q[1]].province
        /\ MunicipalityKeys(file[p[1]].towns[p[2]]) \cap MunicipalityKeys(file[q[1]].towns[q[2]]) # {})
       => ~Conflict(file, p, q)
(* The last place that was indexed under a spelling stays.                   *)
Entry(file, code, k) == CHOOSE p \in Named(file, code, k) : \A q \in Named(file, code, k) : q = p \/ Before(q, p)

(* ------------------------------ resolution ----------------------------- *)
Unresolved(why, code, com) ==
  [status |-> "UNRESOLVED", why |-> why, province |-> code, comunidad |-> com, partido |-> "", town |-> <<>>]
Mut_Disagree(a, b) == a = Unknown \/ b = Unknown
Disagree(a, b) == a > 0 /\ b > 0 /\ a # b
Resolve(file, a) ==
  LET post == IF a.postal = Nothing THEN Nothing ELSE ByCode(a.postal)
      named == IF a.province = Nothing THEN Nothing ELSE ByName(a.province)
      code == IF post > 0 THEN post ELSE named
      com == ComunidadOf[code]
      keys == {k \in MunicipalityKeys(a.town) : Named(file, code, k) # {}}
      key == CHOOSE k \in keys : \A l \in keys : Rank(a.town, k) <= Rank(a.town, l)
      at == Entry(file, code, key)
  IN  IF Disagree(post, named) THEN Unresolved("PROVINCE_CONFLICT", 0, 0)
      ELSE IF code <= 0 THEN Unresolved("PROVINCE_UNKNOWN", 0, 0)
      ELSE IF Disagree(a.comunidad, com) THEN Unresolved("COMUNIDAD_CONFLICT", code, com)
      ELSE IF a.town = <<>> THEN Unresolved("LOCALITY_MISSING", code, com)
      ELSE IF file = <<>> THEN Unresolved("CATALOG_NOT_LOADED", code, com)
      ELSE IF keys = {} THEN Unresolved("MUNICIPALITY_NOT_IN_CATALOG", code, com)
      ELSE [status |-> "RESOLVED", why |-> "", province |-> code, comunidad |-> com,
            partido |-> file[at[1]].name, town |-> file[at[1]].towns[at[2]]]

(* ------------------------------ the request ---------------------------- *)
VARIABLES
  file,     \* the catalogue file of the firm
  record,   \* the record in Kmaleon: whether it is the client's, and its address
  version,  \* of the case
  ask,      \* the request: phase, the version on screen, what was read, the answer
  moves
vars == <<file, record, version, ask, moves>>

Asked == [phase |-> "idle", version |-> 0, address |-> [postal |-> 0, province |-> 0, comunidad |-> 0, town |-> <<>>],
          file |-> <<>>, answer |-> Unresolved("", 0, 0)]
Init ==
  /\ \E r \in Readings, ours \in BOOLEAN : file = r[1] /\ record = [ours |-> ours, address |-> r[2]]
  /\ version = 0 /\ ask = Asked /\ moves = 0
Goes(r) == ask' = r /\ UNCHANGED <<file, record, version, moves>>
To(p) == Goes([ask EXCEPT !.phase = p])

Request == ask.phase = "idle" /\ \E v \in 0 .. version :
             IF v = version THEN Goes([Asked EXCEPT !.phase = "kmaleon", !.version = v])
             ELSE Goes([Asked EXCEPT !.phase = "refused", !.version = v])
(* The record has to be the one of the client of the case.                   *)
GetVerifiedAddress ==
  /\ ask.phase = "kmaleon"
  /\ IF record.ours THEN Goes([ask EXCEPT !.phase = "catalogue", !.address = record.address]) ELSE To("refused")
Mut_Fresh == TRUE
Fresh == ask.version = version
LoadCatalogue ==
  /\ ask.phase = "catalogue"
  /\ IF ~FromCatalog(file) THEN To("refused")
     ELSE Goes([ask EXCEPT !.phase = "check", !.file = file, !.answer = Resolve(file, ask.address)])
Check == ask.phase = "check" /\ To(IF Fresh THEN "answered" ELSE "refused")

CaseMoves ==
  moves < MaxMoves /\ moves' = moves + 1 /\ version' = version + 1 /\ UNCHANGED <<file, record, ask>>
Next == Request \/ GetVerifiedAddress \/ LoadCatalogue \/ Check \/ CaseMoves
Spec == Init /\ [][Next]_vars
-----------------------------------------------------------------------------
Phases == {"idle", "kmaleon", "catalogue", "check", "answered", "refused"}
TypeOK == /\ ask.phase \in Phases /\ version \in 0 .. MaxMoves /\ <<file, record.address>> \in Readings
          /\ \A i \in DOMAIN ComunidadOf : ComunidadOf[i] \in Comunidades
(* A district that the operator is shown is never a guess.  Whatever the     *)
(* order of the catalogue, no other partido of the province lists a place    *)
(* under the spelling that decided; and no two fields of the address that    *)
(* the tables know name different provinces or comunidades.                  *)
Deciding(f, code, town) ==
  LET listed == {k \in MunicipalityKeys(town) : Named(f, code, k) # {}}
  IN  {k \in listed : \A l \in listed : Rank(town, k) <= Rank(town, l)}
NeverGuesses ==
  (ask.phase = "answered" /\ ask.answer.status = "RESOLVED") =>
    LET g == ask.answer a == ask.address
    IN  /\ \A k \in Deciding(ask.file, g.province, a.town) :
             {ask.file[p[1]].name : p \in Named(ask.file, g.province, k)} = {g.partido}
        /\ \A c \in {a.postal, a.province} \cap DOMAIN ComunidadOf : c = g.province
        /\ a.comunidad \in Comunidades => a.comunidad = ComunidadOf[g.province]
(* The address of a case that moved on while it was read is not shown.       *)
ShowsFresh == ask.phase = "check" /\ ask'.phase = "answered" => ask.version = version
AnswerIsFresh == [][ShowsFresh]_vars
=============================================================================
