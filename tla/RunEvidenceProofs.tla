------------------------- MODULE RunEvidenceProofs -------------------------
(***************************************************************************)
(* Theorems about stored runs, for any number of processes, runs and       *)
(* faults.  A directory is accepted for its manifest: what the manifest    *)
(* lists must be there with the listed content, and the record in it must  *)
(* list the same files.  The invariant therefore follows manifests, and    *)
(* the one process that writes into a directory.                           *)
(***************************************************************************)
EXTENDS RunEvidence, SequenceTheorems, FiniteSetTheorems, TLAPS

-----------------------------------------------------------------------------
(***************************************************************************)
(* Functions.                                                              *)
(***************************************************************************)

IsFunction(f) == f = [x \in DOMAIN f |-> f[x]]

LEMMA RestrictFacts ==
    ASSUME NEW f, NEW S
    PROVE  /\ IsFunction(OnlyAt(f, S))
           /\ DOMAIN OnlyAt(f, S) = S
           /\ \A x \in S : OnlyAt(f, S)[x] = f[x]
  BY DEF IsFunction, OnlyAt

LEMMA SameFunction ==
    ASSUME NEW f, NEW g, IsFunction(f), IsFunction(g),
           DOMAIN f = DOMAIN g, \A x \in DOMAIN f : f[x] = g[x]
    PROVE  f = g
  BY DEF IsFunction

-----------------------------------------------------------------------------
(***************************************************************************)
(* The files of a bundle.                                                  *)
(***************************************************************************)

Paths(seq) == {seq[i][1] : i \in DOMAIN seq}
DistinctPaths(seq) == \A i, j \in DOMAIN seq : seq[i][1] = seq[j][1] => i = j

\* Files with distinct paths are what was written, whatever the order.
LEMMA ToFilesFacts ==
    ASSUME NEW seq, DistinctPaths(seq)
    PROVE  /\ IsFunction(ToFiles(seq))
           /\ DOMAIN ToFiles(seq) = Paths(seq)
           /\ \A i \in DOMAIN seq : ToFiles(seq)[seq[i][1]] = seq[i][2]
<1>1. IsFunction(ToFiles(seq)) /\ DOMAIN ToFiles(seq) = Paths(seq)
  BY DEF IsFunction, ToFiles, Paths
<1>2. ASSUME NEW i \in DOMAIN seq
      PROVE  ToFiles(seq)[seq[i][1]] = seq[i][2]
  <2> DEFINE path == seq[i][1]
  <2>1. \A j \in DOMAIN seq : seq[j][1] = path => j = i
    BY DEF DistinctPaths
  <2>2. (CHOOSE j \in DOMAIN seq : seq[j][1] = path) = i
    BY <2>1
  <2>3. path \in {seq[j][1] : j \in DOMAIN seq}
    OBVIOUS
  <2>4. ToFiles(seq)[path] = seq[CHOOSE j \in DOMAIN seq : seq[j][1] = path][2]
    BY <2>3 DEF ToFiles
  <2> QED
    BY <2>2, <2>4
<1> QED
  BY <1>1, <1>2

\* Parts of a bundle that share no path.
LEMMA Concatenated ==
    ASSUME NEW S, NEW a \in Seq(S), NEW b \in Seq(S),
           DistinctPaths(a), DistinctPaths(b), Paths(a) \cap Paths(b) = {}
    PROVE  /\ a \o b \in Seq(S)
           /\ DistinctPaths(a \o b)
           /\ Paths(a \o b) = Paths(a) \cup Paths(b)
<1> DEFINE n == Len(a)
           m == Len(b)
           c == a \o b
<1>1. /\ c \in Seq(S) /\ n \in Nat /\ m \in Nat
      /\ DOMAIN a = 1..n /\ DOMAIN b = 1..m /\ DOMAIN c = 1..(n + m)
      /\ \A i \in 1..n : c[i] = a[i]
      /\ \A i \in (n + 1)..(n + m) : c[i] = b[i - n]
  OBVIOUS
<1> HIDE DEF n, m, c
<1>2. \A i \in 1..n : a[i][1] \in Paths(a)
  BY <1>1 DEF Paths
<1>3. \A i \in 1..m : b[i][1] \in Paths(b)
  BY <1>1 DEF Paths
<1>4. \A i \in (n + 1)..(n + m) : i - n \in 1..m
  BY <1>1
<1>5. DistinctPaths(c)
  <2> SUFFICES ASSUME NEW i \in 1..(n + m), NEW j \in 1..(n + m), c[i][1] = c[j][1]
               PROVE  i = j
    BY <1>1 DEF DistinctPaths
  <2>1. CASE i <= n /\ j <= n
    <3>1. i \in 1..n /\ j \in 1..n
      BY <1>1, <2>1
    <3> QED
      BY <1>1, <3>1 DEF DistinctPaths
  <2>2. CASE i > n /\ j > n
    <3>1. i \in (n + 1)..(n + m) /\ j \in (n + 1)..(n + m)
      BY <1>1, <2>2
    <3>2. i - n \in DOMAIN b /\ j - n \in DOMAIN b
      BY <1>1, <1>4, <3>1
    <3>3. b[i - n][1] = b[j - n][1]
      BY <1>1, <3>1
    <3>4. i - n = j - n
      BY <3>2, <3>3 DEF DistinctPaths
    <3> QED
      BY <1>1, <3>4
  <2>3. CASE i <= n /\ j > n
    <3>1. i \in 1..n /\ j \in (n + 1)..(n + m)
      BY <1>1, <2>3
    <3> QED
      BY <1>1, <1>2, <1>3, <1>4, <3>1
  <2>4. CASE i > n /\ j <= n
    <3>1. j \in 1..n /\ i \in (n + 1)..(n + m)
      BY <1>1, <2>4
    <3> QED
      BY <1>1, <1>2, <1>3, <1>4, <3>1
  <2> QED
    BY <1>1, <2>1, <2>2, <2>3, <2>4
<1>6. Paths(c) = Paths(a) \cup Paths(b)
  <2>1. \A i \in 1..n : i \in 1..(n + m)
    BY <1>1
  <2>2. \A i \in 1..m : i + n \in (n + 1)..(n + m) /\ i + n \in 1..(n + m) /\ (i + n) - n = i
    BY <1>1
  <2>3. \A i \in 1..(n + m) : i \in 1..n \/ i \in (n + 1)..(n + m)
    BY <1>1
  <2>4. Paths(a) \subseteq Paths(c)
    <3> SUFFICES ASSUME NEW i \in 1..n
                 PROVE  a[i][1] \in Paths(c)
      BY <1>1 DEF Paths
    <3> QED
      BY <1>1, <2>1 DEF Paths
  <2>5. Paths(b) \subseteq Paths(c)
    <3> SUFFICES ASSUME NEW i \in DOMAIN b
                 PROVE  b[i][1] \in Paths(c)
      BY DEF Paths
    <3>1. c[i + n] = b[i] /\ i + n \in DOMAIN c
      BY <1>1, <2>2
    <3> QED
      BY <3>1 DEF Paths
  <2>6. Paths(c) \subseteq Paths(a) \cup Paths(b)
    <3> SUFFICES ASSUME NEW i \in 1..(n + m)
                 PROVE  c[i][1] \in Paths(a) \cup Paths(b)
      BY <1>1 DEF Paths
    <3> QED
      BY <1>1, <1>2, <1>3, <1>4, <2>3
  <2> QED
    BY <2>4, <2>5, <2>6
<1> QED
  BY <1>1, <1>5, <1>6 DEF c

\* A part of a bundle: some of the items, no path twice, under some of the paths.
Part(seq, items, paths) == seq \in Seq(items) /\ DistinctPaths(seq) /\ Paths(seq) \subseteq paths

LEMMA EmptyPart == ASSUME NEW items PROVE Part(<<>>, items, {})
  BY DEF Part, DistinctPaths, Paths

LEMMA SinglePart == ASSUME NEW items, NEW item \in items PROVE Part(<<item>>, items, {item[1]})
<1>1. <<item>> \in Seq(items) /\ DOMAIN <<item>> = {1} /\ <<item>>[1] = item
  OBVIOUS
<1> QED
  BY <1>1 DEF Part, DistinctPaths, Paths

LEMMA JoinedParts ==
    ASSUME NEW items, NEW a, NEW b, NEW P, NEW Q, Part(a, items, P), Part(b, items, Q),
           \A path \in Q : path \notin P,
           NEW paths, P \subseteq paths, Q \subseteq paths
    PROVE  Part(a \o b, items, paths)
<1>1. a \in Seq(items) /\ b \in Seq(items) /\ Paths(a) \cap Paths(b) = {}
  BY DEF Part
<1>2. /\ a \o b \in Seq(items) /\ DistinctPaths(a \o b)
      /\ Paths(a \o b) = Paths(a) \cup Paths(b)
  BY <1>1, Concatenated DEF Part
<1> QED
  BY <1>2 DEF Part

\* The paths a payload can have.
PayloadPaths(record) ==
    {ConfigFile, ValuesFile, FrameFile, ResultFileFor(record), ParentRecordFileFor(record),
     HistoricalResultFileFor(record), EventFile}

PayloadItems(b) ==
    {<<ConfigFile, b.config>>, <<ValuesFile, b.values>>, <<FrameFile, b.frame>>,
     <<ResultFileFor(b.record), b.result>>,
     <<ParentRecordFileFor(b.record), b.record.baseline[1].parent>>,
     <<HistoricalResultFileFor(b.record), b.record.baseline[1].result>>,
     <<EventFile, b.events>>}

\* WriteRunBundle writes each payload once, under its own path.
LEMMA PayloadsArePart ==
    ASSUME NEW b
    PROVE  Part(PayloadFiles(b), PayloadItems(b), PayloadPaths(b.record))
<1> DEFINE items == PayloadItems(b)
           optional(present, path, content) == IF present THEN <<<<path, content>>>> ELSE <<>>
           Opt(present, path, content) == Part(optional(present, path, content), items, {path})
           config == <<<<ConfigFile, b.config>>>>
           values == optional(b.values # <<>>, ValuesFile, b.values)
           frame == optional(b.frame # Null, FrameFile, b.frame)
           result == optional(b.result # <<>>, ResultFileFor(b.record), b.result)
           parent == <<ParentRecordFileFor(b.record), b.record.baseline[1].parent>>
           historical == <<HistoricalResultFileFor(b.record), b.record.baseline[1].result>>
           history == IF b.record.invocation = "REPLAY" THEN <<parent, historical>> ELSE <<>>
           events == <<<<EventFile, b.events>>>>
<1>1. PayloadFiles(b) = config \o values \o frame \o result \o history \o events
  BY DEF PayloadFiles
<1>2. \A path, content, present :
         <<path, content>> \in items => Opt(present, path, content)
  <2> SUFFICES ASSUME NEW path, NEW content, NEW present, <<path, content>> \in items
               PROVE  Opt(present, path, content)
    OBVIOUS
  <2>1. Part(<<<<path, content>>>>, items, {path})
    <3>1. <<path, content>>[1] = path
      OBVIOUS
    <3> HIDE DEF items
    <3> QED
      BY <3>1, SinglePart
  <2>2. Part(<<>>, items, {path})
    BY EmptyPart DEF Part
  <2> QED
    BY <2>1, <2>2
<1>3. Part(config, items, {ConfigFile}) /\ Part(events, items, {EventFile})
  <2>1. /\ <<ConfigFile, b.config>> \in items /\ <<EventFile, b.events>> \in items
        /\ <<ConfigFile, b.config>>[1] = ConfigFile /\ <<EventFile, b.events>>[1] = EventFile
    BY DEF PayloadItems
  <2> HIDE DEF items
  <2> QED
    BY <2>1, SinglePart
<1>4. /\ Part(values, items, {ValuesFile})
      /\ Part(frame, items, {FrameFile})
      /\ Part(result, items, {ResultFileFor(b.record)})
  <2>1. /\ <<ValuesFile, b.values>> \in items /\ <<FrameFile, b.frame>> \in items
        /\ <<ResultFileFor(b.record), b.result>> \in items
    BY DEF PayloadItems
  <2> HIDE DEF items
  <2> QED
    BY <1>2, <2>1
<1>5. Part(history, items, {ParentRecordFileFor(b.record), HistoricalResultFileFor(b.record)})
  <2>1. parent \in items /\ historical \in items
    BY DEF PayloadItems
  <2>2. /\ parent[1] = ParentRecordFileFor(b.record)
        /\ historical[1] = HistoricalResultFileFor(b.record)
        /\ ParentRecordFileFor(b.record) # HistoricalResultFileFor(b.record)
    BY DEF ParentRecordFileFor, HistoricalResultFileFor
  <2> HIDE DEF items, parent, historical
  <2>3. /\ <<parent, historical>> \in Seq(items)
        /\ DOMAIN <<parent, historical>> = {1, 2}
        /\ <<parent, historical>>[1] = parent /\ <<parent, historical>>[2] = historical
    BY <2>1
  <2>4. Part(<<parent, historical>>, items, {parent[1], historical[1]})
    BY <2>2, <2>3 DEF Part, DistinctPaths, Paths
  <2>5. Part(<<>>, items, {parent[1], historical[1]})
    BY EmptyPart DEF Part
  <2> QED
    BY <2>2, <2>4, <2>5
<1> HIDE DEF items, config, values, frame, result, history, events
<1> DEFINE C == ConfigFile
           V == ValuesFile
           F == FrameFile
           R == ResultFileFor(b.record)
           P == ParentRecordFileFor(b.record)
           H == HistoricalResultFileFor(b.record)
           E == EventFile
<1>6. /\ C \notin {V, F, R, P, H, E} /\ V \notin {F, R, P, H, E}
      /\ F \notin {R, P, H, E} /\ R \notin {P, H, E} /\ E \notin {P, H}
  BY DEF ConfigFile, ValuesFile, FrameFile, ResultFileFor, ParentRecordFileFor,
         HistoricalResultFileFor, EventFile
<1>7. /\ Part(config, items, {C}) /\ Part(values, items, {V}) /\ Part(frame, items, {F})
      /\ Part(result, items, {R}) /\ Part(history, items, {P, H}) /\ Part(events, items, {E})
  BY <1>3, <1>4, <1>5
<1> HIDE DEF C, V, F, R, P, H, E
<1>8. Part(config \o values, items, {C, V})
  BY <1>6, <1>7, JoinedParts
<1>9. Part((config \o values) \o frame, items, {C, V, F})
  BY <1>6, <1>7, <1>8, JoinedParts
<1>10. Part(((config \o values) \o frame) \o result, items, {C, V, F, R})
  BY <1>6, <1>7, <1>9, JoinedParts
<1>11. Part((((config \o values) \o frame) \o result) \o history, items, {C, V, F, R, P, H})
  BY <1>6, <1>7, <1>10, JoinedParts
<1>12. Part(((((config \o values) \o frame) \o result) \o history) \o events, items,
            {C, V, F, R, P, H, E})
  BY <1>6, <1>7, <1>11, JoinedParts
<1> QED
  BY <1>1, <1>12 DEF items, C, V, F, R, P, H, E, PayloadPaths

\* What the manifest of a bundle lists.
Listed(b) ==
    PayloadFiles(b) \o << <<RecordFileFor(b.record), SerializeRecord(b)>>, <<CompleteFile, "">> >>

\* The payloads, the record, COMPLETE and, last, the manifest.
LEMMA BundleFilesFacts ==
    ASSUME NEW b
    PROVE  LET written == BundleFiles(b)
               n == Len(written)
           IN /\ n \in Nat /\ n >= 1 /\ DOMAIN written = 1..n
              /\ written \in Seq({written[i] : i \in 1..n})
              /\ DistinctPaths(written) /\ DistinctPaths(Listed(b))
              /\ Paths(written) = Paths(Listed(b)) \cup {ManifestFile}
              /\ ManifestFile \notin Paths(Listed(b))
              /\ \A i \in 1..(n - 1) : i \in DOMAIN Listed(b) /\ written[i] = Listed(b)[i]
              /\ DOMAIN Listed(b) = 1..(n - 1)
              /\ written[n] = <<ManifestFile, ToFiles(Listed(b))>>
              /\ Paths(Listed(b)) = Paths(PayloadFiles(b))
                                      \cup {RecordFileFor(b.record), CompleteFile}
              /\ \A path \in Paths(PayloadFiles(b)) : path[1] # "record"
              /\ \E i \in DOMAIN Listed(b) :
                    Listed(b)[i] = <<RecordFileFor(b.record), SerializeRecord(b)>>
<1> DEFINE payloads == PayloadFiles(b)
           record == <<RecordFileFor(b.record), SerializeRecord(b)>>
           complete == <<CompleteFile, "">>
           manifest == <<ManifestFile, ToFiles(Listed(b))>>
           items == PayloadItems(b) \cup {record, complete, manifest}
           end == <<record, complete>>
           listed == Listed(b)
           written == BundleFiles(b)
           n == Len(written)
<1>0. /\ record[1] = RecordFileFor(b.record) /\ complete[1] = CompleteFile
      /\ manifest[1] = ManifestFile
  OBVIOUS
<1>1. /\ \A path \in PayloadPaths(b.record) :
            path \notin {RecordFileFor(b.record), CompleteFile, ManifestFile}
      /\ RecordFileFor(b.record) \notin {CompleteFile, ManifestFile}
      /\ CompleteFile # ManifestFile
      /\ \A path \in PayloadPaths(b.record) : path[1] # "record"
  BY DEF PayloadPaths, ConfigFile, ValuesFile, FrameFile, ResultFileFor, ParentRecordFileFor,
         HistoricalResultFileFor, EventFile, RecordFileFor, CompleteFile, ManifestFile
<1>2. listed = payloads \o end /\ written = Append(listed, manifest)
  BY DEF Listed, BundleFiles
<1>3. Part(payloads, items, PayloadPaths(b.record))
  <2>1. Part(payloads, PayloadItems(b), PayloadPaths(b.record))
    BY PayloadsArePart
  <2>2. PayloadItems(b) \subseteq items
    OBVIOUS
  <2> HIDE DEF items, payloads
  <2> QED
    BY <2>1, <2>2 DEF Part
<1>4. record \in items /\ complete \in items /\ manifest \in items
  OBVIOUS
<1> HIDE DEF payloads, record, complete, manifest, items, listed, written
<1>5. /\ end \in Seq(items) /\ DOMAIN end = {1, 2} /\ Len(end) = 2
      /\ end[1] = record /\ end[2] = complete
  BY <1>4
<1>6. /\ DistinctPaths(end)
      /\ Paths(end) = {RecordFileFor(b.record), CompleteFile}
  BY <1>0, <1>1, <1>5 DEF DistinctPaths, Paths
<1> HIDE DEF end
<1>7. /\ listed \in Seq(items) /\ DistinctPaths(listed)
      /\ Paths(listed) = Paths(payloads) \cup {RecordFileFor(b.record), CompleteFile}
  <2>1. payloads \in Seq(items) /\ DistinctPaths(payloads) /\ Paths(payloads) \cap Paths(end) = {}
    BY <1>1, <1>3, <1>6 DEF Part
  <2> QED
    BY <1>2, <1>5, <1>6, <2>1, Concatenated
<1>8. \A path \in Paths(payloads) : path \in PayloadPaths(b.record)
  BY <1>3 DEF Part
<1>9. ManifestFile \notin Paths(listed)
  BY <1>1, <1>7, <1>8
<1>10. /\ Len(listed) \in Nat /\ DOMAIN listed = 1..Len(listed)
       /\ written \in Seq(items) /\ n = Len(listed) + 1 /\ DOMAIN written = 1..n
       /\ written[n] = manifest
       /\ \A i \in 1..Len(listed) : written[i] = listed[i]
  BY <1>2, <1>4, <1>7
<1> HIDE DEF n
<1>11. /\ n \in Nat /\ n >= 1 /\ n - 1 = Len(listed)
       /\ \A i \in 1..n : i = n \/ i \in 1..(n - 1)
       /\ \A i \in 1..(n - 1) : i \in 1..n
       /\ n \in 1..n
  BY <1>10
<1>12. \A i \in 1..(n - 1) : i \in DOMAIN listed /\ written[i] = listed[i]
  BY <1>10, <1>11
<1>13. \A i \in 1..(n - 1) : written[i][1] \in Paths(listed)
  BY <1>12 DEF Paths
<1>14. DistinctPaths(written)
  <2> SUFFICES ASSUME NEW i \in 1..n, NEW j \in 1..n, written[i][1] = written[j][1]
               PROVE  i = j
    BY <1>10 DEF DistinctPaths
  <2>1. CASE i = n \/ j = n
    BY <1>0, <1>9, <1>10, <1>11, <1>13, <2>1
  <2>2. CASE i # n /\ j # n
    <3>1. i \in DOMAIN listed /\ j \in DOMAIN listed /\ listed[i][1] = listed[j][1]
      BY <1>11, <1>12, <2>2
    <3> QED
      BY <1>7, <3>1 DEF DistinctPaths
  <2> QED
    BY <2>1, <2>2
<1>15. Paths(written) = Paths(listed) \cup {ManifestFile}
  <2>1. Paths(written) \subseteq Paths(listed) \cup {ManifestFile}
    BY <1>0, <1>10, <1>11, <1>13 DEF Paths
  <2>2. ManifestFile \in Paths(written)
    BY <1>0, <1>10, <1>11 DEF Paths
  <2>3. Paths(listed) \subseteq Paths(written)
    <3> SUFFICES ASSUME NEW i \in DOMAIN listed
                 PROVE  listed[i][1] \in Paths(written)
      BY DEF Paths
    <3>1. i \in DOMAIN written /\ written[i] = listed[i]
      BY <1>10, <1>11
    <3> QED
      BY <3>1 DEF Paths
  <2> QED
    BY <2>1, <2>2, <2>3
<1>16. \E i \in DOMAIN listed : listed[i] = record
  <2> DEFINE k == Len(payloads) + 1
  <2>1. payloads \in Seq(items)
    BY <1>3 DEF Part
  <2>2. /\ payloads \o end \in Seq(items)
        /\ Len(payloads \o end) = Len(payloads) + Len(end)
        /\ \A i \in 1..(Len(payloads) + Len(end)) :
              (payloads \o end)[i] =
                 IF i <= Len(payloads) THEN payloads[i] ELSE end[i - Len(payloads)]
    BY <1>5, <2>1, ConcatProperties
  <2>3. k \in DOMAIN (payloads \o end) /\ (payloads \o end)[k] = end[1]
    <3> DEFINE size == Len(payloads)
               all == payloads \o end
    <3>1. size \in Nat
      BY <2>1
    <3>2. DOMAIN all = 1..(size + 2)
      BY <1>5, <2>2
    <3>3. \A i \in 1..(size + 2) : all[i] = IF i <= size THEN payloads[i] ELSE end[i - size]
      BY <1>5, <2>2
    <3> HIDE DEF size, all
    <3>4. size + 1 \in 1..(size + 2) /\ ~ (size + 1 <= size) /\ (size + 1) - size = 1
      BY <3>1
    <3>5. size + 1 \in DOMAIN all /\ all[size + 1] = end[1]
      BY <3>2, <3>3, <3>4
    <3> QED
      BY <3>5 DEF size, all
  <2> QED
    BY <1>2, <1>5, <2>3
<1>17. written \in Seq({written[i] : i \in 1..n})
  BY <1>10
<1> QED
  BY <1>1, <1>7, <1>8, <1>9, <1>10, <1>11, <1>12, <1>14, <1>15, <1>16, <1>17
     DEF payloads, record, manifest, listed, written, n

-----------------------------------------------------------------------------
(***************************************************************************)
(* Which directories the reader accepts.                                   *)
(***************************************************************************)

\* The files of one whole bundle of a run: the manifest lists every other file
\* with its content, the one record among them names the run and its payloads.
WholeBundle(run, files) ==
    LET manifest == files[ManifestFile]
    IN /\ IsFunction(files) /\ IsFunction(manifest)
       /\ ManifestFile \notin DOMAIN manifest
       /\ DOMAIN files = DOMAIN manifest \cup {ManifestFile}
       /\ \A path \in DOMAIN manifest : files[path] = manifest[path]
       /\ \E record \in DOMAIN manifest :
             /\ record[1] = "record"
             /\ \A path \in DOMAIN manifest : path[1] = "record" => path = record
             /\ manifest[record].facts.run = run
             /\ DOMAIN manifest =
                  DOMAIN manifest[record].payloads \cup {CompleteFile, record}

\* What a writer sets out to write is a whole bundle.
LEMMA BundlesAreWhole ==
    ASSUME NEW b
    PROVE  WholeBundle(b.record.run, ToFiles(BundleFiles(b)))
<1> DEFINE written == BundleFiles(b)
           n == Len(written)
           listed == Listed(b)
           files == ToFiles(written)
           manifest == ToFiles(listed)
           record == RecordFileFor(b.record)
<1>1. /\ n \in Nat /\ n >= 1 /\ DOMAIN written = 1..n
      /\ DistinctPaths(written) /\ DistinctPaths(listed)
      /\ Paths(written) = Paths(listed) \cup {ManifestFile}
      /\ ManifestFile \notin Paths(listed)
      /\ \A i \in 1..(n - 1) : i \in DOMAIN listed /\ written[i] = listed[i]
      /\ DOMAIN listed = 1..(n - 1)
      /\ written[n] = <<ManifestFile, manifest>>
      /\ Paths(listed) = Paths(PayloadFiles(b)) \cup {record, CompleteFile}
      /\ \A path \in Paths(PayloadFiles(b)) : path[1] # "record"
      /\ \E i \in DOMAIN listed : listed[i] = <<record, SerializeRecord(b)>>
  BY BundleFilesFacts
<1> HIDE DEF written, listed
<1>2. /\ IsFunction(files) /\ DOMAIN files = Paths(written)
      /\ \A i \in DOMAIN written : files[written[i][1]] = written[i][2]
  BY <1>1, ToFilesFacts
<1>3. /\ IsFunction(manifest) /\ DOMAIN manifest = Paths(listed)
      /\ \A i \in DOMAIN listed : manifest[listed[i][1]] = listed[i][2]
  BY <1>1, ToFilesFacts
<1> HIDE DEF files, manifest
<1>4. files[ManifestFile] = manifest
  <2>1. n \in DOMAIN written /\ written[n][1] = ManifestFile /\ written[n][2] = manifest
    BY <1>1
  <2> QED
    BY <1>2, <2>1
<1>5. ASSUME NEW path \in DOMAIN manifest
      PROVE  files[path] = manifest[path]
  <2>1. PICK i \in DOMAIN listed : path = listed[i][1]
    BY <1>3 DEF Paths
  <2>2. i \in DOMAIN written /\ written[i] = listed[i]
    BY <1>1
  <2> QED
    BY <1>2, <1>3, <2>1, <2>2
<1>6. manifest[record] = SerializeRecord(b)
  <2>1. PICK i \in DOMAIN listed : listed[i] = <<record, SerializeRecord(b)>>
    BY <1>1
  <2>2. listed[i][1] = record /\ listed[i][2] = SerializeRecord(b)
    BY <2>1
  <2> QED
    BY <1>3, <2>2
<1>7. record[1] = "record" /\ CompleteFile[1] # "record"
  BY DEF RecordFileFor, CompleteFile
<1>8. /\ SerializeRecord(b).facts = b.record
      /\ DOMAIN SerializeRecord(b).payloads = Paths(PayloadFiles(b))
  BY DEF SerializeRecord, ToFiles, Paths
<1>9. DOMAIN manifest = DOMAIN manifest[record].payloads \cup {CompleteFile, record}
  BY <1>1, <1>3, <1>6, <1>8
<1>10. record \in DOMAIN manifest
  BY <1>9
<1>11. \A path \in DOMAIN manifest : path[1] = "record" => path = record
  BY <1>1, <1>6, <1>7, <1>8, <1>9
<1>12. manifest[record].facts.run = b.record.run
  BY <1>6, <1>8
<1>13. WholeBundle(b.record.run, files)
  BY <1>1, <1>2, <1>3, <1>4, <1>5, <1>7, <1>9, <1>10, <1>11, <1>12 DEF WholeBundle
<1> QED
  BY <1>13 DEF files, written

\* The reader accepts nothing else than whole bundles of the run it expects.
LEMMA AcceptedIsWhole ==
    ASSUME NEW m, WholeBundle(m.run, m.files), NEW run, NEW files, IsFunction(files),
           DOMAIN files[ManifestFile] \subseteq DOMAIN m.files[ManifestFile],
           files[ManifestFile] = OnlyAt(m.files[ManifestFile], DOMAIN files[ManifestFile]),
           LoadRunBundle(run, files)
    PROVE  files = m.files /\ run = m.run
<1> DEFINE manifest == files[ManifestFile]
           listed == DOMAIN manifest
           whole == m.files[ManifestFile]
           records == {path \in listed : path[1] = "record"}
           first == CHOOSE path \in listed : path[1] = "record"
<1>1. /\ listed \subseteq DOMAIN whole
      /\ \A path \in listed : manifest[path] = whole[path]
  BY RestrictFacts
<1>2. /\ IsFunction(m.files) /\ IsFunction(whole)
      /\ ManifestFile \notin DOMAIN whole
      /\ DOMAIN m.files = DOMAIN whole \cup {ManifestFile}
      /\ \A path \in DOMAIN whole : m.files[path] = whole[path]
  BY DEF WholeBundle
<1>3. PICK record \in DOMAIN whole :
             /\ record[1] = "record"
             /\ \A path \in DOMAIN whole : path[1] = "record" => path = record
             /\ whole[record].facts.run = m.run
             /\ DOMAIN whole = DOMAIN whole[record].payloads \cup {CompleteFile, record}
  BY DEF WholeBundle
<1>4. /\ \A path \in listed : path \in DOMAIN files /\ files[path] = manifest[path]
      /\ Cardinality(records) = 1
      /\ DOMAIN files = listed \cup {ManifestFile}
      /\ files[first].facts.run = run
      /\ listed = DOMAIN files[first].payloads \cup {CompleteFile, first}
  BY DEF LoadRunBundle, ParseManifest, FileSetComplete
<1>5. records # {}
  <2>1. Cardinality({}) = 0
    BY FS_EmptySet
  <2>2. Cardinality(records) = 1
    BY <1>4
  <2> HIDE DEF records
  <2> QED
    BY <2>1, <2>2
<1>6. first = record /\ record \in listed
  <2>1. \E path \in listed : path[1] = "record"
    BY <1>5
  <2>2. first \in listed /\ first[1] = "record"
    BY <2>1
  <2> QED
    BY <1>1, <1>3, <2>2
<1>7. files[first] = whole[record]
  BY <1>1, <1>4, <1>6
<1>8. listed = DOMAIN whole
  BY <1>3, <1>4, <1>6, <1>7
<1>9. manifest = whole
  BY <1>2, <1>8 DEF OnlyAt, IsFunction
<1>10. DOMAIN files = DOMAIN m.files /\ \A path \in DOMAIN files : files[path] = m.files[path]
  BY <1>1, <1>2, <1>4, <1>8, <1>9
<1>11. files = m.files
  BY <1>2, <1>10, SameFunction
<1> QED
  BY <1>3, <1>4, <1>7, <1>11

-----------------------------------------------------------------------------
(***************************************************************************)
(* The invariant, of the state in its parts: s is a process, d the record  *)
(* root, M the bundles that are meant, n the number of faults so far.      *)
(***************************************************************************)

Writing == {"write", "review", "publish"}
Carrying == {"check", "create"} \cup Writing
Name(s) == s.bundle[1].record.run
Written(s) == BundleFiles(s.bundle[1])

\* A process carries a bundle that is meant, and what it has not yet written of it.
Carries(s, M) ==
    LET n == Len(Written(s))
    IN /\ [run |-> Name(s), files |-> ToFiles(Written(s))] \in M
       /\ s.left \in Seq({Written(s)[i] : i \in 1..n})
       /\ Len(s.left) <= n
       /\ \A i \in 1..Len(s.left) : s.left[i] = Written(s)[n - Len(s.left) + i]

\* A directory holds the first k files of a bundle and nothing else.
Holds(files, written, k) ==
    /\ DOMAIN files = {written[i][1] : i \in 1..k}
    /\ \A i \in 1..k : files[written[i][1]] = written[i][2]

\* The terminal facts that select the exit code.
TerminalSound(execution) ==
    /\ execution.terminal.status \in
          {"PREPARATION_FAILED", "STRUCTURAL_REJECTED", "STRUCTURAL_ERROR",
           "LAB_RESULT_FAILED", "OK", "CODEC_ERROR"}
    /\ execution.terminal.status = "OK" => execution.main = "OK"

\* The directory a process writes holds what it has written so far.
OnDisk(s, d, n) ==
    /\ Progress(Name(s)) \in DOMAIN d
    /\ n = 0 => Holds(d[Progress(Name(s))], Written(s), Len(Written(s)) - Len(s.left))

\* What a process that ended with 0 has published.
Published(s, d, n) ==
    LET record == s.bundle[1].record
    IN /\ Final(record.run) \in DOMAIN d
       /\ n = 0 => d[Final(record.run)] = ToFiles(Written(s))
       /\ record.comparison # "DIFFERENT"
       /\ \/ record.execution.terminal.status = "OK" /\ s.expect \in {Null, "OK"}
          \/ s.expect = record.execution.main

\* How far a process got, and what stands on disk for it.
Sound(s, d, M, n) ==
    /\ s.pc \in Carrying => Carries(s, M) /\ TerminalSound(s.bundle[1].record.execution)
    /\ s.pc \in {"check", "create"} => Len(s.left) = Len(Written(s))
    /\ s.pc = "write" => Len(s.left) >= 1
    /\ s.pc \in {"review", "publish"} => Len(s.left) = 0
    /\ s.pc \in Writing => OnDisk(s, d, n)
    /\ s.pc = "done" /\ s.exit = 0 => Published(s, d, n)

\* A manifest that cannot be read, or one that a writer set out to write,
\* possibly cut short: that is all a damaged directory can hold.
Genuine(content, M) ==
    \/ content = Garbage
    \/ \E m \in M : LET manifest == m.files[ManifestFile]
                    IN /\ DOMAIN content \subseteq DOMAIN manifest
                       /\ content = OnlyAt(manifest, DOMAIN content)

FilesSound(files, M) ==
    IsFunction(files) /\ (ManifestFile \in DOMAIN files => Genuine(files[ManifestFile], M))

DiskSound(d, M) == IsFunction(d) /\ \A dir \in DOMAIN d : FilesSound(d[dir], M)

MeantWhole(M) == \A m \in M : m = [run |-> m.run, files |-> m.files] /\ WholeBundle(m.run, m.files)

ProcTyped(pr) == DOMAIN pr = Processes /\ \A p \in Processes : DOMAIN pr[p] = DOMAIN IdleProcess

\* Into one directory writes one process, whatever names two processes chose.
OneWriter ==
    \A p, q \in Processes :
        proc[p].pc \in Writing /\ proc[q].pc \in Writing /\ Name(proc[p]) = Name(proc[q]) => p = q

IInv ==
    /\ ProcTyped(proc) /\ DiskSound(disk, meant) /\ MeantWhole(meant) /\ faults \in Nat
    /\ \A p \in Processes : Sound(proc[p], disk, meant, faults)
    /\ OneWriter

-----------------------------------------------------------------------------
(***************************************************************************)
(* The record root.                                                        *)
(***************************************************************************)

LEMMA MoreMeant ==
    ASSUME NEW d, NEW M, NEW N, M \subseteq N, DiskSound(d, M)
    PROVE  DiskSound(d, N)
<1>1. \A content : Genuine(content, M) => Genuine(content, N)
  BY DEF Genuine
<1> QED
  BY <1>1 DEF DiskSound, FilesSound

LEMMA NoFiles == ASSUME NEW M PROVE FilesSound(<<>>, M)
<1>1. <<>> = [x \in {} |-> x] /\ DOMAIN <<>> = {}
  OBVIOUS
<1> QED
  BY <1>1 DEF FilesSound, IsFunction

LEMMA OneMoreFile ==
    ASSUME NEW files, NEW M, FilesSound(files, M), NEW path, NEW content,
           path = ManifestFile => Genuine(content, M)
    PROVE  FilesSound(Put(files, path, content), M)
<1> DEFINE more == Put(files, path, content)
<1>1. /\ IsFunction(more) /\ DOMAIN more = DOMAIN files \cup {path} /\ more[path] = content
      /\ \A y \in DOMAIN files : y # path => more[y] = files[y]
  BY DEF IsFunction, Put
<1> HIDE DEF more
<1>2. FilesSound(more, M)
  BY <1>1 DEF FilesSound
<1> QED
  BY <1>2 DEF more

LEMMA FewerFiles ==
    ASSUME NEW files, NEW M, FilesSound(files, M), NEW S, S \subseteq DOMAIN files
    PROVE  FilesSound(OnlyAt(files, S), M)
  BY RestrictFacts DEF FilesSound

LEMMA OneMoreDirectory ==
    ASSUME NEW d, NEW M, DiskSound(d, M), NEW dir, NEW files, FilesSound(files, M)
    PROVE  DiskSound(Put(d, dir, files), M)
<1> DEFINE more == Put(d, dir, files)
<1>1. /\ IsFunction(more) /\ DOMAIN more = DOMAIN d \cup {dir} /\ more[dir] = files
      /\ \A y \in DOMAIN d : y # dir => more[y] = d[y]
  BY DEF IsFunction, Put
<1> HIDE DEF more
<1>2. DiskSound(more, M)
  BY <1>1 DEF DiskSound
<1> QED
  BY <1>2 DEF more

LEMMA FewerDirectories ==
    ASSUME NEW d, NEW M, DiskSound(d, M), NEW S, S \subseteq DOMAIN d
    PROVE  DiskSound(OnlyAt(d, S), M)
  BY RestrictFacts DEF DiskSound

LEMMA ChangedDirectory ==
    ASSUME NEW d, NEW M, DiskSound(d, M), NEW dir \in DOMAIN d, NEW files, FilesSound(files, M)
    PROVE  DiskSound([d EXCEPT ![dir] = files], M)
  BY DEF DiskSound, IsFunction

-----------------------------------------------------------------------------
(***************************************************************************)
(* A process that does not move.                                           *)
(***************************************************************************)

LEMMA SoundKept ==
    ASSUME NEW s, NEW d, NEW e, NEW M, NEW N, NEW n \in Nat, NEW k \in Nat,
           Sound(s, d, M, n), M \subseteq N, n <= k,
           s.pc \in Writing =>
              /\ Progress(Name(s)) \in DOMAIN e
              /\ k = 0 => e[Progress(Name(s))] = d[Progress(Name(s))],
           s.pc = "done" /\ s.exit = 0 =>
              /\ Final(Name(s)) \in DOMAIN e
              /\ k = 0 => e[Final(Name(s))] = d[Final(Name(s))]
    PROVE  Sound(s, e, N, k)
<1>1. k = 0 => n = 0
  OBVIOUS
<1>2. Carries(s, M) => Carries(s, N)
  BY DEF Carries
<1>3. s.pc \in Writing => OnDisk(s, e, k)
  BY <1>1 DEF Sound, OnDisk
<1>4. s.pc = "done" /\ s.exit = 0 => Published(s, e, k)
  BY <1>1 DEF Sound, Published, Name
<1> QED
  BY <1>2, <1>3, <1>4 DEF Sound

\* A process that is idle, executes or failed has nothing on disk.
LEMMA SoundWithout ==
    ASSUME NEW s, NEW d, NEW M, NEW n,
           s.pc \in {"idle", "execute"} \/ (s.pc = "done" /\ s.exit # 0)
    PROVE  Sound(s, d, M, n)
  BY DEF Sound, Carrying, Writing

\* Final and unfinished directories have different names.
LEMMA Directories ==
    ASSUME NEW run, NEW other
    PROVE  /\ Final(run) # Progress(other)
           /\ Progress(run) = Progress(other) => run = other
           /\ Final(run) = Final(other) => run = other
  BY DEF Final, Progress

\* What an exit code of 0 says of the record.
LEMMA ExitZero ==
    ASSUME NEW record, NEW expect, TerminalSound(record.execution),
           SelectProcessExit(record, expect) = 0
    PROVE  /\ record.comparison # "DIFFERENT"
           /\ \/ record.execution.terminal.status = "OK" /\ expect \in {Null, "OK"}
              \/ expect = record.execution.main
<1> DEFINE status == record.execution.terminal.status
           main == record.execution.main
           exit == ExecutionExit(record)
<1>1. exit # 10
  BY DEF SelectProcessExit
<1>2. CASE expect = Null \/ main = Null
  <2>1. exit = 0 /\ record.comparison # "DIFFERENT"
    BY <1>1, <1>2 DEF SelectProcessExit
  <2>2. status = "OK" /\ main = "OK"
    BY <2>1 DEF ExecutionExit, IsInternal, TerminalSound
  <2> QED
    BY <1>2, <2>1, <2>2 DEF Null
<1>3. CASE expect # Null /\ main # Null
  BY <1>1, <1>3 DEF SelectProcessExit
<1> QED
  BY <1>2, <1>3

\* SetTerminal names one of six outcomes.
LEMMA SetTerminalFacts ==
    ASSUME NEW out
    PROVE  /\ SetTerminal(out).status \in
                 {"PREPARATION_FAILED", "STRUCTURAL_REJECTED", "STRUCTURAL_ERROR",
                  "LAB_RESULT_FAILED", "OK", "CODEC_ERROR"}
           /\ SetTerminal(out).status = "OK" => out.main = "OK"
  BY DEF SetTerminal

\* What BuildBundle records of the run and of how it ended.
LEMMA BundleFacts ==
    ASSUME NEW request, NEW out, NEW events
    PROVE  LET record == BuildBundle(request, out, events).record
           IN record.run = request.run /\ TerminalSound(record.execution)
<1> DEFINE record == BuildBundle(request, out, events).record
<1>1. /\ record.run = request.run
      /\ record.execution = ExecutionFacts(request.op, out, events)
  BY DEF BuildBundle
<1>2. /\ ExecutionFacts(request.op, out, events).terminal = SetTerminal(out)
      /\ ExecutionFacts(request.op, out, events).main = out.main
  BY DEF ExecutionFacts
<1> HIDE DEF record
<1>3. record.run = request.run /\ TerminalSound(record.execution)
  BY <1>1, <1>2, SetTerminalFacts DEF TerminalSound
<1> QED
  BY <1>3 DEF record

-----------------------------------------------------------------------------
(***************************************************************************)
(* Steps.  In each, one process moves or none does; what remains of the    *)
(* invariant is the record root and the process that moved.                *)
(***************************************************************************)

LEMMA Fields ==
    DOMAIN IdleProcess = {"pc", "request", "expect", "bundle", "left", "exit", "error"}
  BY DEF IdleProcess

\* A process moves alone.
Moves(p, s) ==
    /\ ProcTyped(proc') /\ proc'[p] = s
    /\ \A q \in Processes : q # p => proc'[q] = proc[q]

LEMMA Replaced ==
    ASSUME ProcTyped(proc), NEW p \in Processes, NEW s, DOMAIN s = DOMAIN IdleProcess,
           proc' = [proc EXCEPT ![p] = s]
    PROVE  Moves(p, s)
  BY DEF ProcTyped, Moves

\* What is left to show when one process moves.
LEMMA OneMoves ==
    ASSUME IInv, NEW p \in Processes, NEW s, Moves(p, s),
           DiskSound(disk', meant'), MeantWhole(meant'), meant \subseteq meant',
           faults' \in Nat, faults <= faults',
           Sound(s, disk', meant', faults'),
           \A q \in Processes : q # p =>
              /\ proc[q].pc \in Writing =>
                    /\ Progress(Name(proc[q])) \in DOMAIN disk'
                    /\ faults' = 0 =>
                          disk'[Progress(Name(proc[q]))] = disk[Progress(Name(proc[q]))]
              /\ proc[q].pc = "done" /\ proc[q].exit = 0 =>
                    /\ Final(Name(proc[q])) \in DOMAIN disk'
                    /\ faults' = 0 => disk'[Final(Name(proc[q]))] = disk[Final(Name(proc[q]))],
           s.pc \in Writing =>
              \A q \in Processes : q # p /\ proc[q].pc \in Writing => Name(proc[q]) # Name(s)
    PROVE  IInv'
<1>1. ASSUME NEW q \in Processes
      PROVE  Sound(proc'[q], disk', meant', faults')
  <2>1. CASE q = p
    BY <2>1 DEF Moves
  <2>2. CASE q # p
    <3>1. proc'[q] = proc[q] /\ faults \in Nat /\ Sound(proc[q], disk, meant, faults)
      BY <2>2 DEF Moves, IInv
    <3>2. Sound(proc[q], disk', meant', faults')
      BY <2>2, <3>1, SoundKept
    <3> QED
      BY <3>1, <3>2
  <2> QED
    BY <2>1, <2>2
<1>2. OneWriter'
  BY DEF OneWriter, Moves, IInv
<1> QED
  BY <1>1, <1>2 DEF IInv, Moves

\* A process that moves and leaves the files alone.
LEMMA MovesQuietly ==
    ASSUME IInv, NEW p \in Processes, NEW s, Moves(p, s),
           disk' = disk, meant' = meant, faults' \in Nat, faults <= faults',
           Sound(s, disk, meant, faults'),
           s.pc \in Writing => proc[p].pc \in Writing /\ Name(s) = Name(proc[p])
    PROVE  IInv'
<1>1. \A q \in Processes : Sound(proc[q], disk, meant, faults)
  BY DEF IInv
<1>2. \A q \in Processes :
         /\ proc[q].pc \in Writing => Progress(Name(proc[q])) \in DOMAIN disk
         /\ proc[q].pc = "done" /\ proc[q].exit = 0 => Final(Name(proc[q])) \in DOMAIN disk
  BY <1>1 DEF Sound, OnDisk, Published, Name
<1>3. DiskSound(disk', meant') /\ MeantWhole(meant') /\ meant \subseteq meant'
  BY DEF IInv
<1>4. s.pc \in Writing =>
         \A q \in Processes : q # p /\ proc[q].pc \in Writing => Name(proc[q]) # Name(s)
  BY DEF IInv, OneWriter
<1>5. Sound(s, disk', meant', faults')
  OBVIOUS
<1> QED
  BY <1>2, <1>3, <1>4, <1>5, OneMoves

\* A process that gives up.
LEMMA GivesUp ==
    ASSUME IInv, NEW p \in Processes, NEW error, Fail(p, error),
           disk' = disk, meant' = meant, faults' \in Nat, faults <= faults'
    PROVE  IInv'
<1> DEFINE s == proc'[p]
<1>1. ProcTyped(proc)
  BY DEF IInv
<1>2. /\ Moves(p, s) /\ s.pc = "done" /\ s.exit = 7
  BY <1>1, Fields DEF Fail, Moves, ProcTyped
<1>3. Sound(s, disk, meant, faults') /\ s.pc \notin Writing
  BY <1>2, SoundWithout DEF Writing
<1> HIDE DEF s
<1> QED
  BY <1>2, <1>3, MovesQuietly

-----------------------------------------------------------------------------
(***************************************************************************)
(* The operations.                                                         *)
(***************************************************************************)

LEMMA InitIInv == Init => IInv
<1> SUFFICES ASSUME Init PROVE IInv
  OBVIOUS
<1>1. \A p \in Processes : proc[p] = IdleProcess /\ proc[p].pc = "idle"
  BY DEF Init, IdleProcess
<1>2. ProcTyped(proc)
  BY <1>1 DEF Init, ProcTyped
<1>3. DOMAIN disk = {} /\ IsFunction(disk)
  BY DEF Init, IsFunction
<1>4. DiskSound(disk, meant) /\ MeantWhole(meant) /\ faults \in Nat
  BY <1>3 DEF Init, DiskSound, MeantWhole
<1>5. \A p \in Processes : Sound(proc[p], disk, meant, faults)
  BY <1>1, SoundWithout
<1>6. OneWriter
  BY <1>1 DEF OneWriter, Writing
<1> QED
  BY <1>2, <1>4, <1>5, <1>6 DEF IInv

\* A command line that starts has not touched the record root.
LEMMA StartIInv ==
    ASSUME IInv, NEW p \in Processes, NEW run, NEW op, NEW config, NEW values, NEW tool,
           NEW expect, Start(p, run, op, config, values, tool, expect)
    PROVE  IInv'
<1> DEFINE s == proc'[p]
<1>1. ProcTyped(proc) /\ faults \in Nat
  BY DEF IInv
<1>2. Moves(p, s) /\ s.pc = "execute"
  BY <1>1, Fields DEF Start, Moves, ProcTyped
<1>3. disk' = disk /\ meant' = meant /\ faults' = faults
  BY DEF Start
<1>4. Sound(s, disk, meant, faults') /\ s.pc \notin Writing
  BY <1>2, SoundWithout DEF Writing
<1> HIDE DEF s
<1> QED
  BY <1>1, <1>2, <1>3, <1>4, MovesQuietly

LEMMA StartReplayIInv ==
    ASSUME IInv, NEW p \in Processes, NEW run, NEW dir, NEW tool, NEW expect,
           StartReplay(p, run, dir, tool, expect)
    PROVE  IInv'
<1> DEFINE s == proc'[p]
<1>1. ProcTyped(proc) /\ faults \in Nat
  BY DEF IInv
<1>2. Moves(p, s) /\ (s.pc = "execute" \/ (s.pc = "done" /\ s.exit = 3))
  BY <1>1, Fields DEF StartReplay, Moves, ProcTyped
<1>3. disk' = disk /\ meant' = meant /\ faults' = faults
  BY DEF StartReplay
<1>4. Sound(s, disk, meant, faults') /\ s.pc \notin Writing
  BY <1>2, SoundWithout DEF Writing
<1> HIDE DEF s
<1> QED
  BY <1>1, <1>2, <1>3, <1>4, MovesQuietly

\* An execution means to write the whole bundle it built.
LEMMA ExecuteIInv ==
    ASSUME IInv, NEW p \in Processes, NEW structurals, NEW mains, NEW reviews,
           Execute(p, structurals, mains, reviews)
    PROVE  IInv'
<1> DEFINE s == proc'[p]
<1>1. ProcTyped(proc) /\ faults \in Nat /\ DiskSound(disk, meant) /\ MeantWhole(meant)
  BY DEF IInv
<1>2. PICK a :
        LET r == proc[p].request[1]
            run == ExecuteRun(r, Schema[r.config], a)
            bundle == BuildBundle(r, run.out, run.events)
        IN /\ proc' = [proc EXCEPT ![p].pc = "check", ![p].bundle = <<bundle>>,
                                   ![p].left = BundleFiles(bundle)]
           /\ meant' = meant \cup {[run |-> r.run, files |-> ToFiles(BundleFiles(bundle))]}
  BY DEF Execute
<1> DEFINE r == proc[p].request[1]
           run == ExecuteRun(r, Schema[r.config], a)
           bundle == BuildBundle(r, run.out, run.events)
           m == [run |-> r.run, files |-> ToFiles(BundleFiles(bundle))]
<1>3. /\ Moves(p, s) /\ s.pc = "check" /\ s.bundle = <<bundle>>
      /\ s.left = BundleFiles(bundle)
  <2> HIDE DEF bundle
  <2>1. proc' = [proc EXCEPT ![p].pc = "check", ![p].bundle = <<bundle>>,
                             ![p].left = BundleFiles(bundle)]
    BY <1>2 DEF bundle
  <2> QED
    BY <1>1, <2>1, Fields DEF Moves, ProcTyped
<1>4. bundle.record.run = r.run /\ TerminalSound(bundle.record.execution)
  BY BundleFacts
<1> HIDE DEF bundle
<1>5. WholeBundle(m.run, m.files) /\ m = [run |-> m.run, files |-> m.files]
  BY <1>4, BundlesAreWhole
<1>6. meant' = meant \cup {m}
  BY <1>2 DEF bundle
<1>7. disk' = disk /\ faults' = faults
  BY DEF Execute
<1>8. s.bundle[1] = bundle /\ Name(s) = r.run /\ Written(s) = BundleFiles(bundle)
  BY <1>3, <1>4 DEF Name, Written
<1>9. Carries(s, meant') /\ Len(s.left) = Len(Written(s))
  <2> DEFINE written == BundleFiles(bundle)
             n == Len(written)
  <2>1. n \in Nat /\ written \in Seq({written[i] : i \in 1..n})
    BY BundleFilesFacts
  <2>2. m \in meant'
    BY <1>6
  <2> HIDE DEF written, n, s
  <2>3. s.left = written /\ Written(s) = written
    BY <1>3, <1>8 DEF written
  <2>4. [run |-> Name(s), files |-> ToFiles(Written(s))] = m
    BY <1>8
  <2>5. \A i \in 1..n : i = n - n + i
    BY <2>1
  <2>6. \A i \in 1..Len(s.left) : s.left[i] = Written(s)[Len(Written(s)) - Len(s.left) + i]
    BY <2>3, <2>5 DEF n
  <2> QED
    BY <2>1, <2>2, <2>3, <2>4, <2>6 DEF Carries, n
<1>10. Sound(s, disk', meant', faults')
  BY <1>3, <1>4, <1>8, <1>9 DEF Sound, Writing
<1> HIDE DEF s, m
<1>11. MeantWhole(meant') /\ meant \subseteq meant'
  BY <1>1, <1>5, <1>6 DEF MeantWhole
<1>12. DiskSound(disk', meant')
  BY <1>1, <1>7, <1>11, MoreMeant
<1>13. \A q \in Processes :
         /\ proc[q].pc \in Writing => Progress(Name(proc[q])) \in DOMAIN disk
         /\ proc[q].pc = "done" /\ proc[q].exit = 0 => Final(Name(proc[q])) \in DOMAIN disk
  BY DEF IInv, Sound, OnDisk, Published, Name
<1> QED
  BY <1>1, <1>3, <1>7, <1>10, <1>11, <1>12, <1>13, OneMoves DEF Writing

\* A process that carries its bundle on, with what it has left.
LEMMA CarriedOn ==
    ASSUME NEW s, NEW t, t.bundle = s.bundle
    PROVE  /\ Name(t) = Name(s) /\ Written(t) = Written(s)
           /\ \A M : t.left = s.left /\ Carries(s, M) => Carries(t, M)
<1>1. Name(t) = Name(s) /\ Written(t) = Written(s)
  BY DEF Name, Written
<1> QED
  BY <1>1 DEF Carries

LEMMA Keeps ==
    ASSUME ProcTyped(proc), NEW p \in Processes, NEW pc, proc' = [proc EXCEPT ![p].pc = pc]
    PROVE  /\ Moves(p, proc'[p]) /\ proc'[p].pc = pc
           /\ proc'[p].bundle = proc[p].bundle /\ proc'[p].left = proc[p].left
  BY Fields DEF Moves, ProcTyped

LEMMA CheckDestinationIInv ==
    ASSUME IInv, NEW p \in Processes, CheckDestination(p)
    PROVE  IInv'
<1>1. disk' = disk /\ meant' = meant /\ faults' = faults /\ faults \in Nat
  BY DEF CheckDestination, IInv
<1>2. \/ Fail(p, "ASSOCIATIONS") \/ Fail(p, "EXISTS")
      \/ proc' = [proc EXCEPT ![p].pc = "create"]
  BY DEF CheckDestination
<1>3. CASE proc' = [proc EXCEPT ![p].pc = "create"]
  <2> DEFINE s == proc'[p]
             t == proc[p]
  <2>1. ProcTyped(proc) /\ Sound(t, disk, meant, faults) /\ t.pc = "check"
    BY DEF IInv, CheckDestination
  <2>2. Moves(p, s) /\ s.pc = "create" /\ s.bundle = t.bundle /\ s.left = t.left
    BY <1>3, <2>1, Keeps
  <2> HIDE DEF s, t
  <2>3. /\ Carries(t, meant) /\ TerminalSound(t.bundle[1].record.execution)
        /\ Len(t.left) = Len(Written(t))
    BY <2>1 DEF Sound, Carrying
  <2>4. Carries(s, meant) /\ Written(s) = Written(t)
    BY <2>2, <2>3, CarriedOn
  <2>5. Sound(s, disk, meant, faults') /\ s.pc \notin Writing
    BY <2>2, <2>3, <2>4 DEF Sound, Writing
  <2> QED
    BY <1>1, <2>2, <2>5, MovesQuietly
<1> QED
  BY <1>1, <1>2, <1>3, GivesUp

\* The reader sees what was written; it changes nothing.
LEMMA PreflightIInv ==
    ASSUME IInv, NEW p \in Processes, Preflight(p)
    PROVE  IInv'
<1>1. disk' = disk /\ meant' = meant /\ faults' = faults /\ faults \in Nat
  BY DEF Preflight, IInv
<1>2. Fail(p, "PREFLIGHT") \/ proc' = [proc EXCEPT ![p].pc = "publish"]
  BY DEF Preflight
<1>3. CASE proc' = [proc EXCEPT ![p].pc = "publish"]
  <2> DEFINE s == proc'[p]
             t == proc[p]
  <2>1. ProcTyped(proc) /\ Sound(t, disk, meant, faults) /\ t.pc = "review"
    BY DEF IInv, Preflight
  <2>2. Moves(p, s) /\ s.pc = "publish" /\ s.bundle = t.bundle /\ s.left = t.left
    BY <1>3, <2>1, Keeps
  <2> HIDE DEF s, t
  <2>3. /\ Carries(t, meant) /\ TerminalSound(t.bundle[1].record.execution)
        /\ Len(t.left) = 0 /\ OnDisk(t, disk, faults)
    BY <2>1 DEF Sound, Carrying, Writing
  <2>4. Carries(s, meant) /\ Written(s) = Written(t) /\ Name(s) = Name(t)
    BY <2>2, <2>3, CarriedOn
  <2>5. OnDisk(s, disk, faults')
    BY <1>1, <2>2, <2>3, <2>4 DEF OnDisk
  <2>6. Sound(s, disk, meant, faults')
    BY <2>2, <2>3, <2>4, <2>5 DEF Sound
  <2>7. t.pc \in Writing
    BY <2>1 DEF Writing
  <2> QED
    BY <1>1, <2>2, <2>4, <2>6, <2>7, MovesQuietly DEF t
<1> QED
  BY <1>1, <1>2, <1>3, GivesUp

LEMMA FinishIInv ==
    ASSUME IInv, NEW p \in Processes, Finish(p)
    PROVE  IInv'
<1>1. disk' = disk /\ meant' = meant /\ faults' = faults /\ faults \in Nat /\ ProcTyped(proc)
  BY DEF Finish, IInv
<1>2. Moves(p, IdleProcess)
  BY <1>1, Replaced DEF Finish
<1>3. Sound(IdleProcess, disk, meant, faults') /\ IdleProcess.pc \notin Writing
  <2>1. IdleProcess.pc = "idle"
    BY DEF IdleProcess
  <2> QED
    BY <2>1, SoundWithout DEF Writing
<1> QED
  BY <1>1, <1>2, <1>3, MovesQuietly

LEMMA IoFailsIInv ==
    ASSUME IInv, NEW p \in Processes, IoFails(p)
    PROVE  IInv'
<1>1. disk' = disk /\ meant' = meant /\ faults' \in Nat /\ faults <= faults'
  BY DEF IoFails, IInv
<1>2. Fail(p, "IO")
  BY DEF IoFails
<1> QED
  BY <1>1, <1>2, GivesUp

\* An unfinished directory belongs to its one writer from the moment it is there.
LEMMA CreateDirectoryIInv ==
    ASSUME IInv, NEW p \in Processes, CreateDirectory(p)
    PROVE  IInv'
<1> DEFINE s == proc'[p]
           t == proc[p]
           dir == Progress(Name(t))
<1>1. /\ meant' = meant /\ faults' = faults /\ faults \in Nat
      /\ ProcTyped(proc) /\ DiskSound(disk, meant) /\ MeantWhole(meant)
      /\ t.pc = "create" /\ Sound(t, disk, meant, faults)
  BY DEF CreateDirectory, IInv
<1>2. CASE dir \in DOMAIN disk
  <2>1. Fail(p, "EXISTS") /\ disk' = disk
    BY <1>2 DEF CreateDirectory, Name
  <2> QED
    BY <1>1, <2>1, GivesUp
<1>3. CASE dir \notin DOMAIN disk
  <2>1. disk' = Put(disk, dir, <<>>) /\ proc' = [proc EXCEPT ![p].pc = "write"]
    BY <1>3 DEF CreateDirectory, Name
  <2>2. Moves(p, s) /\ s.pc = "write" /\ s.bundle = t.bundle /\ s.left = t.left
    BY <1>1, <2>1, Keeps
  <2>3. /\ DOMAIN disk' = DOMAIN disk \cup {dir} /\ disk'[dir] = <<>>
        /\ \A other \in DOMAIN disk : disk'[other] = disk[other]
    BY <1>3, <2>1 DEF Put
  <2> HIDE DEF s, t
  <2>4. /\ Carries(t, meant) /\ TerminalSound(t.bundle[1].record.execution)
        /\ Len(t.left) = Len(Written(t))
    BY <1>1 DEF Sound, Carrying
  <2>5. Carries(s, meant) /\ Written(s) = Written(t) /\ Name(s) = Name(t)
    BY <2>2, <2>4, CarriedOn
  <2>6. Len(Written(t)) \in Nat /\ Len(Written(t)) >= 1
    BY BundleFilesFacts DEF Written
  <2>7. OnDisk(s, disk', faults')
    <3>1. Len(Written(s)) - Len(s.left) = 0
      BY <2>2, <2>4, <2>5, <2>6
    <3>2. DOMAIN <<>> = {} /\ 1..0 = {}
      OBVIOUS
    <3>3. Holds(<<>>, Written(s), 0)
      BY <3>2 DEF Holds
    <3> QED
      BY <2>3, <2>5, <3>1, <3>3 DEF OnDisk
  <2>8. Sound(s, disk', meant', faults')
    BY <1>1, <2>2, <2>4, <2>5, <2>6, <2>7 DEF Sound
  <2>9. DiskSound(disk', meant')
    BY <1>1, <2>1, NoFiles, OneMoreDirectory
  <2>10. \A q \in Processes :
           /\ proc[q].pc \in Writing =>
                 Progress(Name(proc[q])) \in DOMAIN disk /\ Name(proc[q]) # Name(t)
           /\ proc[q].pc = "done" /\ proc[q].exit = 0 => Final(Name(proc[q])) \in DOMAIN disk
    BY <1>3 DEF IInv, Sound, OnDisk, Published, Name
  <2> QED
    BY <1>1, <2>2, <2>3, <2>5, <2>8, <2>9, <2>10, OneMoves
<1> QED
  BY <1>2, <1>3

\* What comes next of a bundle; the manifest comes last and is meant.
LEMMA NextFile ==
    ASSUME NEW s, NEW M, Carries(s, M), Len(s.left) >= 1
    PROVE  LET written == Written(s)
               n == Len(written)
               k == n - Len(s.left)
               file == Head(s.left)
           IN /\ n \in Nat /\ Len(s.left) \in Nat /\ k \in 0..(n - 1) /\ file = written[k + 1]
              /\ Tail(s.left) \in Seq({written[i] : i \in 1..n})
              /\ Len(Tail(s.left)) = Len(s.left) - 1
              /\ \A i \in 1..Len(Tail(s.left)) : Tail(s.left)[i] = written[k + 1 + i]
              /\ file[1] = ManifestFile =>
                    /\ IsFunction(file[2])
                    /\ \E m \in M : m.files[ManifestFile] = file[2]
<1> DEFINE b == s.bundle[1]
           written == Written(s)
           n == Len(written)
           left == s.left
           k == n - Len(left)
           file == Head(left)
<1>1. /\ n \in Nat /\ DOMAIN written = 1..n /\ DistinctPaths(written) /\ DistinctPaths(Listed(b))
      /\ ManifestFile \notin Paths(Listed(b)) /\ n >= 1
      /\ \A i \in 1..(n - 1) : i \in DOMAIN Listed(b) /\ written[i] = Listed(b)[i]
      /\ written[n] = <<ManifestFile, ToFiles(Listed(b))>>
  BY BundleFilesFacts DEF Written
<1>2. /\ [run |-> Name(s), files |-> ToFiles(written)] \in M
      /\ left \in Seq({written[i] : i \in 1..n}) /\ Len(left) <= n
      /\ \A i \in 1..Len(left) : left[i] = written[k + i]
  BY DEF Carries
<1> HIDE DEF written, n, left
<1>3. Len(left) \in Nat /\ Len(left) >= 1
  BY <1>2 DEF left
<1>4. k \in 0..(n - 1) /\ file = written[k + 1]
  BY <1>1, <1>2, <1>3
<1>5. /\ Tail(left) \in Seq({written[i] : i \in 1..n})
      /\ Len(Tail(left)) = Len(left) - 1
      /\ \A i \in 1..Len(Tail(left)) : Tail(left)[i] = left[i + 1]
  BY <1>2, <1>3
<1>6. \A i \in 1..Len(Tail(left)) : Tail(left)[i] = written[k + 1 + i]
  BY <1>1, <1>2, <1>3, <1>5
<1>7. ASSUME file[1] = ManifestFile
      PROVE  IsFunction(file[2]) /\ \E m \in M : m.files[ManifestFile] = file[2]
  <2>1. k + 1 = n
    <3>1. SUFFICES ASSUME k + 1 \in 1..(n - 1) PROVE FALSE
      BY <1>1, <1>4
    <3>2. k + 1 \in DOMAIN Listed(b) /\ Listed(b)[k + 1][1] = ManifestFile
      BY <1>1, <1>4, <1>7, <3>1
    <3> QED
      BY <1>1, <3>2 DEF Paths
  <2>2. file = <<ManifestFile, ToFiles(Listed(b))>> /\ n \in DOMAIN written
    BY <1>1, <1>4, <2>1
  <2>3. ToFiles(written)[ManifestFile] = file[2]
    BY <1>1, <1>4, <1>7, <2>1, <2>2, ToFilesFacts
  <2>4. IsFunction(file[2])
    BY <1>1, <2>2, ToFilesFacts
  <2> DEFINE m == [run |-> Name(s), files |-> ToFiles(written)]
  <2>5. m \in M /\ m.files[ManifestFile] = file[2]
    BY <1>2, <2>3
  <2> QED
    BY <2>4, <2>5
<1> QED
  BY <1>1, <1>3, <1>4, <1>5, <1>6, <1>7 DEF written, n, left

\* A whole manifest is genuine, and so is every part of it.
LEMMA GenuineParts ==
    ASSUME NEW M, NEW content, IsFunction(content),
           \E m \in M : m.files[ManifestFile] = content,
           NEW S, S \subseteq DOMAIN content
    PROVE  Genuine(content, M) /\ Genuine(OnlyAt(content, S), M)
<1>1. content = OnlyAt(content, DOMAIN content)
  BY DEF IsFunction, OnlyAt
<1>2. DOMAIN OnlyAt(content, S) = S
  BY DEF OnlyAt
<1> QED
  BY <1>1, <1>2 DEF Genuine

\* A file more of a bundle in its directory.
LEMMA HoldsMore ==
    ASSUME NEW written, NEW n \in Nat, DOMAIN written = 1..n, DistinctPaths(written),
           NEW k \in 0..(n - 1), NEW files, Holds(files, written, k)
    PROVE  Holds(Put(files, written[k + 1][1], written[k + 1][2]), written, k + 1)
<1> DEFINE path == written[k + 1][1]
           more == Put(files, path, written[k + 1][2])
<1>1. \A i \in 1..k : i \in 1..n /\ written[i][1] # path
  <2>1. k + 1 \in 1..n /\ \A i \in 1..k : i \in 1..n /\ i # k + 1
    OBVIOUS
  <2> QED
    BY <2>1 DEF DistinctPaths
<1>2. 1..(k + 1) = 1..k \cup {k + 1}
  OBVIOUS
<1>3. /\ DOMAIN more = DOMAIN files \cup {path} /\ more[path] = written[k + 1][2]
      /\ \A y \in DOMAIN files : y # path => more[y] = files[y]
  BY DEF Put
<1>4. DOMAIN files = {written[i][1] : i \in 1..k}
      /\ \A i \in 1..k : files[written[i][1]] = written[i][2]
  BY DEF Holds
<1> HIDE DEF more
<1>5. DOMAIN more = {written[i][1] : i \in 1..(k + 1)}
  BY <1>2, <1>3, <1>4
<1>6. \A i \in 1..(k + 1) : more[written[i][1]] = written[i][2]
  BY <1>1, <1>2, <1>3, <1>4
<1> QED
  BY <1>5, <1>6 DEF Holds, more

LEMMA WriteVerifiedIInv ==
    ASSUME IInv, NEW p \in Processes, WriteVerified(p)
    PROVE  IInv'
<1> DEFINE s == proc'[p]
           t == proc[p]
           dir == Progress(Name(t))
           file == Head(t.left)
           written == Written(t)
           n == Len(written)
           k == n - Len(t.left)
           more == Put(disk[dir], file[1], file[2])
<1>1. /\ meant' = meant /\ faults' = faults /\ faults \in Nat
      /\ ProcTyped(proc) /\ DiskSound(disk, meant) /\ MeantWhole(meant)
      /\ t.pc = "write" /\ Sound(t, disk, meant, faults)
  BY DEF WriteVerified, IInv
<1>2. /\ Moves(p, s) /\ s.pc = (IF Len(t.left) = 1 THEN "review" ELSE "write")
      /\ s.bundle = t.bundle /\ s.left = Tail(t.left)
  BY <1>1, Fields DEF WriteVerified, Moves, ProcTyped
<1>3. disk' = [disk EXCEPT ![dir] = more]
  BY DEF WriteVerified, Name
<1> HIDE DEF s, t
<1>4. /\ Carries(t, meant) /\ TerminalSound(t.bundle[1].record.execution)
      /\ Len(t.left) >= 1 /\ OnDisk(t, disk, faults)
  BY <1>1 DEF Sound, Carrying, Writing
<1>5. dir \in DOMAIN disk
  BY <1>4 DEF OnDisk
<1>6. /\ n \in Nat /\ Len(t.left) \in Nat /\ k \in 0..(n - 1) /\ file = written[k + 1]
      /\ s.left \in Seq({written[i] : i \in 1..n})
      /\ Len(s.left) = Len(t.left) - 1
      /\ \A i \in 1..Len(s.left) : s.left[i] = written[k + 1 + i]
      /\ file[1] = ManifestFile =>
            /\ IsFunction(file[2])
            /\ \E m \in meant : m.files[ManifestFile] = file[2]
  BY <1>2, <1>4, NextFile
<1>7. Written(s) = written /\ Name(s) = Name(t)
  BY <1>2, CarriedOn
<1>8. Carries(s, meant)
  <2>1. [run |-> Name(s), files |-> ToFiles(Written(s))] \in meant
    BY <1>4, <1>7 DEF Carries
  <2>2. Len(s.left) <= n /\ n - Len(s.left) = k + 1
    BY <1>6
  <2>3. \A i \in 1..Len(s.left) :
           s.left[i] = Written(s)[Len(Written(s)) - Len(s.left) + i]
    BY <1>6, <1>7, <2>2
  <2>4. s.left \in Seq({Written(s)[i] : i \in 1..Len(Written(s))})
    BY <1>6, <1>7
  <2>5. Len(s.left) <= Len(Written(s))
    BY <1>7, <2>2
  <2> QED
    BY <2>1, <2>3, <2>4, <2>5 DEF Carries
<1>9. /\ DOMAIN disk' = DOMAIN disk /\ disk'[dir] = more
      /\ \A other \in DOMAIN disk : other # dir => disk'[other] = disk[other]
  BY <1>3, <1>5
<1>10. OnDisk(s, disk', faults')
  <2>1. DOMAIN written = 1..n /\ DistinctPaths(written)
    BY BundleFilesFacts DEF Written
  <2>2. faults' = 0 => Holds(disk[dir], written, k)
    BY <1>1, <1>4 DEF OnDisk
  <2> HIDE DEF written, n, k
  <2>3. n \in Nat /\ k \in 0..(n - 1) /\ file = written[k + 1]
    BY <1>6
  <2>4. faults' = 0 => Holds(more, written, k + 1)
    BY <2>1, <2>2, <2>3, HoldsMore
  <2>5. Len(Written(s)) - Len(s.left) = k + 1
    BY <1>6, <1>7 DEF k, n
  <2> QED
    BY <1>5, <1>7, <1>9, <2>4, <2>5 DEF OnDisk
<1>11. Sound(s, disk', meant', faults')
  <2>0. Len(t.left) \in Nat /\ Len(t.left) >= 1 /\ Len(s.left) = Len(t.left) - 1
    BY <1>4, <1>6
  <2>1. s.pc = "write" => Len(s.left) >= 1
    <3>1. s.pc = "write" => Len(t.left) # 1
      BY <1>2
    <3>2. \A i \in Nat : i >= 1 /\ i # 1 => i - 1 >= 1
      OBVIOUS
    <3> QED
      BY <2>0, <3>1, <3>2
  <2>2. s.pc \in {"review", "publish"} => Len(s.left) = 0
    BY <1>2, <2>0
  <2> QED
    BY <1>1, <1>2, <1>4, <1>8, <1>10, <2>1, <2>2 DEF Sound
<1>12. DiskSound(disk', meant')
  <2>1. FilesSound(disk[dir], meant)
    BY <1>1, <1>5 DEF DiskSound
  <2>2. file[1] = ManifestFile => Genuine(file[2], meant)
    BY <1>6, GenuineParts
  <2>3. FilesSound(more, meant)
    BY <2>1, <2>2, OneMoreFile
  <2> QED
    BY <1>1, <1>3, <1>5, <2>3, ChangedDirectory
<1>13. t.pc \in Writing
  BY <1>1 DEF Writing
<1>14. \A q \in Processes :
         /\ proc[q].pc \in Writing =>
               /\ Progress(Name(proc[q])) \in DOMAIN disk
               /\ q # p => Name(proc[q]) # Name(t)
         /\ proc[q].pc = "done" /\ proc[q].exit = 0 => Final(Name(proc[q])) \in DOMAIN disk
  <2>1. \A q \in Processes : proc[q].pc \in Writing /\ q # p => Name(proc[q]) # Name(t)
    BY <1>13 DEF IInv, OneWriter, t
  <2>2. \A q \in Processes :
         /\ proc[q].pc \in Writing => Progress(Name(proc[q])) \in DOMAIN disk
         /\ proc[q].pc = "done" /\ proc[q].exit = 0 => Final(Name(proc[q])) \in DOMAIN disk
    BY DEF IInv, Sound, OnDisk, Published, Name
  <2> QED
    BY <2>1, <2>2
<1> HIDE DEF more
<1>15. \A q \in Processes : q # p =>
         /\ proc[q].pc \in Writing =>
               /\ Progress(Name(proc[q])) \in DOMAIN disk'
               /\ disk'[Progress(Name(proc[q]))] = disk[Progress(Name(proc[q]))]
         /\ proc[q].pc = "done" /\ proc[q].exit = 0 =>
               /\ Final(Name(proc[q])) \in DOMAIN disk'
               /\ disk'[Final(Name(proc[q]))] = disk[Final(Name(proc[q]))]
  BY <1>9, <1>14, Directories
<1> QED
  BY <1>1, <1>2, <1>7, <1>11, <1>12, <1>14, <1>15, OneMoves

\* The rename moves what was written to a name that was free.
LEMMA PublishIInv ==
    ASSUME IInv, NEW p \in Processes, Publish(p)
    PROVE  IInv'
<1> DEFINE s == proc'[p]
           t == proc[p]
           from == Progress(Name(t))
           to == Final(Name(t))
           record == t.bundle[1].record
           rest == OnlyAt(disk, DOMAIN disk \ {from})
           written == Written(t)
           n == Len(written)
<1>1. /\ meant' = meant /\ faults' = faults /\ faults \in Nat
      /\ ProcTyped(proc) /\ DiskSound(disk, meant) /\ MeantWhole(meant)
      /\ t.pc = "publish" /\ Sound(t, disk, meant, faults)
  BY DEF Publish, IInv
<1>2. CASE to \in DOMAIN disk
  <2>1. Fail(p, "RENAME") /\ disk' = disk
    BY <1>2 DEF Publish, Name
  <2> QED
    BY <1>1, <2>1, GivesUp
<1>3. CASE to \notin DOMAIN disk
  <2>1. /\ disk' = Put(rest, to, disk[from])
        /\ proc' = [proc EXCEPT ![p].pc = "done",
                                ![p].exit = SelectProcessExit(record, t.expect)]
    BY <1>3 DEF Publish, Name
  <2>2. /\ Moves(p, s) /\ s.pc = "done" /\ s.bundle = t.bundle /\ s.expect = t.expect
        /\ s.exit = SelectProcessExit(record, t.expect)
    BY <1>1, <2>1, Fields DEF Moves, ProcTyped
  <2> HIDE DEF s, t
  <2>3. /\ Carries(t, meant) /\ TerminalSound(record.execution)
        /\ Len(t.left) = 0 /\ OnDisk(t, disk, faults) /\ t.pc \in Writing
    BY <1>1 DEF Sound, Carrying, Writing
  <2>4. from \in DOMAIN disk /\ from # to
    BY <2>3, Directories DEF OnDisk
  <2>5. /\ to \in DOMAIN disk' /\ disk'[to] = disk[from]
        /\ \A other \in DOMAIN disk : other # from =>
              other \in DOMAIN disk' /\ disk'[other] = disk[other]
    BY <1>3, <2>1, <2>4 DEF Put, OnlyAt
  <2>6. Written(s) = written /\ Name(s) = Name(t)
    BY <2>2, CarriedOn
  <2>7. faults' = 0 => disk'[to] = ToFiles(written)
    <3> SUFFICES ASSUME faults' = 0 PROVE disk[from] = ToFiles(written)
      BY <2>5
    <3>1. n \in Nat /\ DOMAIN written = 1..n /\ DistinctPaths(written)
      BY BundleFilesFacts DEF Written
    <3>2. Holds(disk[from], written, n)
      <4>1. n - Len(t.left) = n
        BY <2>3, <3>1
      <4> QED
        BY <1>1, <2>3, <4>1 DEF OnDisk
    <3>3. IsFunction(disk[from])
      BY <1>1, <2>4 DEF DiskSound, FilesSound
    <3> DEFINE files == disk[from]
               whole == ToFiles(written)
    <3>4. /\ IsFunction(whole) /\ DOMAIN whole = Paths(written)
          /\ \A i \in DOMAIN written : whole[written[i][1]] = written[i][2]
      BY <3>1, ToFilesFacts
    <3> HIDE DEF files, whole, written, n
    <3>5. /\ DOMAIN files = Paths(written)
          /\ \A i \in DOMAIN written : files[written[i][1]] = written[i][2]
      BY <3>1, <3>2 DEF Holds, Paths, files
    <3>6. \A path \in DOMAIN files : files[path] = whole[path]
      BY <3>4, <3>5 DEF Paths
    <3>7. files = whole
      BY <3>3, <3>4, <3>5, <3>6, SameFunction DEF files
    <3> QED
      BY <3>7 DEF files, whole
  <2>8. s.exit = 0 => Published(s, disk', faults')
    <3> SUFFICES ASSUME s.exit = 0 PROVE Published(s, disk', faults')
      OBVIOUS
    <3>1. /\ record.comparison # "DIFFERENT"
          /\ \/ record.execution.terminal.status = "OK" /\ t.expect \in {Null, "OK"}
             \/ t.expect = record.execution.main
      BY <2>2, <2>3, ExitZero
    <3>2. s.bundle[1].record = record /\ Final(record.run) = to
      BY <2>2 DEF Name
    <3> HIDE DEF record, to, written
    <3> QED
      BY <2>2, <2>5, <2>6, <2>7, <3>1, <3>2 DEF Published
  <2>9. Sound(s, disk', meant', faults') /\ s.pc \notin Writing
    BY <2>2, <2>8 DEF Sound, Carrying, Writing
  <2>10. DiskSound(disk', meant')
    <3>1. FilesSound(disk[from], meant)
      BY <1>1, <2>4 DEF DiskSound
    <3>2. DiskSound(rest, meant)
      BY <1>1, FewerDirectories
    <3> QED
      BY <1>1, <2>1, <3>1, <3>2, OneMoreDirectory
  <2>11. \A q \in Processes :
           /\ proc[q].pc \in Writing =>
                 /\ Progress(Name(proc[q])) \in DOMAIN disk
                 /\ q # p => Name(proc[q]) # Name(t)
           /\ proc[q].pc = "done" /\ proc[q].exit = 0 => Final(Name(proc[q])) \in DOMAIN disk
    <3>1. \A q \in Processes : proc[q].pc \in Writing /\ q # p => Name(proc[q]) # Name(t)
      BY <2>3 DEF IInv, OneWriter, t
    <3>2. \A q \in Processes :
           /\ proc[q].pc \in Writing => Progress(Name(proc[q])) \in DOMAIN disk
           /\ proc[q].pc = "done" /\ proc[q].exit = 0 => Final(Name(proc[q])) \in DOMAIN disk
      BY DEF IInv, Sound, OnDisk, Published, Name
    <3> QED
      BY <3>1, <3>2
  <2>12. \A q \in Processes : q # p =>
           /\ proc[q].pc \in Writing =>
                 /\ Progress(Name(proc[q])) \in DOMAIN disk'
                 /\ disk'[Progress(Name(proc[q]))] = disk[Progress(Name(proc[q]))]
           /\ proc[q].pc = "done" /\ proc[q].exit = 0 =>
                 /\ Final(Name(proc[q])) \in DOMAIN disk'
                 /\ disk'[Final(Name(proc[q]))] = disk[Final(Name(proc[q]))]
    BY <2>5, <2>11, Directories
  <2> QED
    BY <1>1, <2>2, <2>9, <2>10, <2>12, OneMoves
<1> QED
  BY <1>2, <1>3

\* A process that dies leaves its directory behind, the last file torn.
LEMMA CrashIInv ==
    ASSUME IInv, NEW p \in Processes, Crash(p)
    PROVE  IInv'
<1> DEFINE t == proc[p]
           dir == Progress(Name(t))
           file == Head(t.left)
<1>1. /\ meant' = meant /\ faults' = faults + 1 /\ faults \in Nat
      /\ ProcTyped(proc) /\ DiskSound(disk, meant) /\ MeantWhole(meant)
      /\ Sound(t, disk, meant, faults)
  BY DEF Crash, IInv
<1>2. Moves(p, IdleProcess)
  BY <1>1, Replaced DEF Crash
<1>3. Sound(IdleProcess, disk', meant', faults') /\ IdleProcess.pc \notin Writing
  <2>1. IdleProcess.pc = "idle"
    BY DEF IdleProcess
  <2> QED
    BY <2>1, SoundWithout DEF Writing
<1>4. DiskSound(disk', meant) /\ DOMAIN disk' = DOMAIN disk
  <2>1. CASE t.pc # "write"
    BY <1>1, <2>1 DEF Crash
  <2>2. CASE t.pc = "write"
    <3>1. PICK torn \in Torn(disk[dir], file) : disk' = [disk EXCEPT ![dir] = torn]
      BY <2>2 DEF Crash, Name
    <3> HIDE DEF t
    <3>2. Carries(t, meant) /\ Len(t.left) >= 1 /\ dir \in DOMAIN disk
      BY <1>1, <2>2 DEF Sound, Carrying, Writing, OnDisk
    <3>3. file[1] = ManifestFile =>
             /\ IsFunction(file[2])
             /\ \E m \in meant : m.files[ManifestFile] = file[2]
      BY <3>2, NextFile
    <3>4. FilesSound(disk[dir], meant)
      BY <1>1, <3>2 DEF DiskSound
    <3>5. FilesSound(torn, meant)
      <4>1. CASE torn = disk[dir]
        BY <3>4, <4>1
      <4>2. CASE torn = Put(disk[dir], file[1], Garbage)
        BY <3>4, <4>2, OneMoreFile DEF Genuine
      <4>3. ASSUME file[1] = ManifestFile, NEW path \in DOMAIN file[2],
                   torn = Put(disk[dir], ManifestFile, OnlyAt(file[2], DOMAIN file[2] \ {path}))
            PROVE  FilesSound(torn, meant)
        <5>1. Genuine(OnlyAt(file[2], DOMAIN file[2] \ {path}), meant)
          BY <3>3, <4>3, GenuineParts
        <5> QED
          BY <3>4, <4>3, <5>1, OneMoreFile
      <4> QED
        BY <4>1, <4>2, <4>3 DEF Torn
    <3>6. DiskSound(disk', meant)
      BY <1>1, <3>1, <3>2, <3>5, ChangedDirectory
    <3> QED
      BY <3>1, <3>6
  <2> QED
    BY <2>1, <2>2
<1>5. \A q \in Processes :
         /\ proc[q].pc \in Writing => Progress(Name(proc[q])) \in DOMAIN disk
         /\ proc[q].pc = "done" /\ proc[q].exit = 0 => Final(Name(proc[q])) \in DOMAIN disk
  BY DEF IInv, Sound, OnDisk, Published, Name
<1> QED
  BY <1>1, <1>2, <1>3, <1>4, <1>5, OneMoves

\* Damage removes no directory, and what it does to a manifest is seen.
LEMMA DamageIInv ==
    ASSUME IInv, NEW dir \in DOMAIN disk, Damage(dir)
    PROVE  IInv'
<1>1. /\ meant' = meant /\ proc' = proc /\ faults' = faults + 1 /\ faults \in Nat
      /\ ProcTyped(proc) /\ DiskSound(disk, meant) /\ MeantWhole(meant)
      /\ FilesSound(disk[dir], meant)
  BY DEF Damage, IInv, DiskSound
<1>2. DiskSound(disk', meant) /\ DOMAIN disk \subseteq DOMAIN disk'
  <2>1. ASSUME NEW path \in DOMAIN disk[dir],
               disk' = [disk EXCEPT ![dir] = Put(disk[dir], path, Garbage)]
        PROVE  DiskSound(disk', meant)
    <3>1. FilesSound(Put(disk[dir], path, Garbage), meant)
      BY <1>1, OneMoreFile DEF Genuine
    <3> QED
      BY <1>1, <2>1, <3>1, ChangedDirectory
  <2>2. ASSUME NEW path \in DOMAIN disk[dir],
               disk' = [disk EXCEPT ![dir] = OnlyAt(disk[dir], DOMAIN disk[dir] \ {path})]
        PROVE  DiskSound(disk', meant)
    <3>1. FilesSound(OnlyAt(disk[dir], DOMAIN disk[dir] \ {path}), meant)
      BY <1>1, FewerFiles
    <3> QED
      BY <1>1, <2>2, <3>1, ChangedDirectory
  <2>3. ASSUME disk' = [disk EXCEPT ![dir] = Put(disk[dir], <<"extra", "">>, Garbage)]
        PROVE  DiskSound(disk', meant)
    <3>1. FilesSound(Put(disk[dir], <<"extra", "">>, Garbage), meant)
      BY <1>1, OneMoreFile DEF Genuine
    <3> QED
      BY <1>1, <2>3, <3>1, ChangedDirectory
  <2>4. ASSUME NEW run, disk' = Put(disk, Final(run), disk[dir])
        PROVE  DiskSound(disk', meant)
    BY <1>1, <2>4, OneMoreDirectory
  <2>5. DiskSound(disk', meant)
    BY <2>1, <2>2, <2>3, <2>4 DEF Damage
  <2>6. DOMAIN disk \subseteq DOMAIN disk'
    BY DEF Damage, Put
  <2> QED
    BY <2>5, <2>6
<1>3. \A q \in Processes : Sound(proc'[q], disk', meant', faults')
  <2> TAKE q \in Processes
  <2>1. /\ Sound(proc[q], disk, meant, faults)
        /\ proc[q].pc \in Writing => Progress(Name(proc[q])) \in DOMAIN disk
        /\ proc[q].pc = "done" /\ proc[q].exit = 0 => Final(Name(proc[q])) \in DOMAIN disk
    BY DEF IInv, Sound, OnDisk, Published, Name
  <2>2. Sound(proc[q], disk', meant, faults')
    BY <1>1, <1>2, <2>1, SoundKept
  <2> QED
    BY <1>1, <2>2
<1>4. OneWriter'
  BY <1>1 DEF IInv, OneWriter
<1> QED
  BY <1>1, <1>2, <1>3, <1>4 DEF IInv

-----------------------------------------------------------------------------
(***************************************************************************)
(* The theorems.                                                           *)
(***************************************************************************)

LEMMA StepIInv == IInv /\ [Next]_vars => IInv'
<1> SUFFICES ASSUME IInv, [Next]_vars PROVE IInv'
  OBVIOUS
<1>1. ASSUME NEW p \in Processes, RunStep(p) PROVE IInv'
  BY <1>1, StartIInv, StartReplayIInv, ExecuteIInv, CheckDestinationIInv, CreateDirectoryIInv,
     WriteVerifiedIInv, PreflightIInv, PublishIInv, FinishIInv DEF RunStep, FileStep
<1>2. ASSUME Fault PROVE IInv'
  BY <1>2, IoFailsIInv, CrashIInv, DamageIInv DEF Fault
<1>3. ASSUME UNCHANGED vars PROVE IInv'
  BY <1>3 DEF vars, IInv, OneWriter
<1> QED
  BY <1>1, <1>2, <1>3 DEF Next

LEMMA Invariant == Spec => []IInv
  BY InitIInv, StepIInv, PTL DEF Spec

\* Whatever crashes, fails or is damaged, and under whatever names directories
\* are copied: what LoadRunBundle accepts is a complete bundle that one process
\* set out to write for the run the directory is named after.  A manifest that
\* is cut short never passes, because the record it lists names the rest.
THEOREM AcceptedComplete == Spec => []AcceptedIsComplete
<1>1. IInv => AcceptedIsComplete
  <2> SUFFICES ASSUME IInv, NEW dir \in DOMAIN disk, Readable(dir)
               PROVE  [run |-> dir[1], files |-> disk[dir]] \in meant
    BY DEF AcceptedIsComplete
  <2> DEFINE files == disk[dir]
  <2>1. LoadRunBundle(dir[1], files) /\ FilesSound(files, meant) /\ MeantWhole(meant)
    BY DEF Readable, IInv, DiskSound
  <2>2. ManifestFile \in DOMAIN files /\ files[ManifestFile] # Garbage
    BY <2>1 DEF LoadRunBundle, ParseManifest
  <2> HIDE DEF files
  <2>3. PICK m \in meant :
            /\ DOMAIN files[ManifestFile] \subseteq DOMAIN m.files[ManifestFile]
            /\ files[ManifestFile] = OnlyAt(m.files[ManifestFile], DOMAIN files[ManifestFile])
    BY <2>1, <2>2 DEF FilesSound, Genuine
  <2>4. WholeBundle(m.run, m.files) /\ m = [run |-> m.run, files |-> m.files]
    BY <2>1 DEF MeantWhole
  <2>5. files = m.files /\ dir[1] = m.run
    BY <2>1, <2>3, <2>4, AcceptedIsWhole DEF FilesSound
  <2> QED
    BY <2>4, <2>5 DEF files
<1> QED
  BY <1>1, Invariant, PTL

\* The rename of WriteRunBundle is the last change: whatever processes do later,
\* crash or fail, a published bundle stays as it is, unless it is damaged.
THEOREM PublishedStays == Spec => PublishedImmutable
<1>1. ASSUME IInv, Next
      PROVE  \A dir \in DOMAIN disk : dir[2] = "FINAL" =>
                \/ dir \in DOMAIN disk' /\ disk'[dir] = disk[dir]
                \/ proc' = proc /\ faults' # faults
  <2> SUFFICES ASSUME NEW dir \in DOMAIN disk, dir[2] = "FINAL"
               PROVE  \/ dir \in DOMAIN disk' /\ disk'[dir] = disk[dir]
                      \/ proc' = proc /\ faults' # faults
    OBVIOUS
  <2>1. ASSUME NEW p \in Processes, RunStep(p) \/ IoFails(p)
        PROVE  dir \in DOMAIN disk' /\ disk'[dir] = disk[dir]
    <3>1. CASE CreateDirectory(p)
      BY <3>1 DEF CreateDirectory, Put
    <3>2. CASE WriteVerified(p)
      BY <3>2 DEF WriteVerified, Progress
    <3>3. CASE Publish(p)
      <4> DEFINE run == proc[p].bundle[1].record.run
                 others == OnlyAt(disk, DOMAIN disk \ {Progress(run)})
      <4>1. \/ disk' = disk
            \/ Final(run) \notin DOMAIN disk /\ disk' = Put(others, Final(run), disk[Progress(run)])
        BY <3>3 DEF Publish
      <4>2. dir # Progress(run)
        BY DEF Progress
      <4> HIDE DEF run
      <4> QED
        BY <4>1, <4>2 DEF Put, OnlyAt
    <3>4. CASE ~CreateDirectory(p) /\ ~WriteVerified(p) /\ ~Publish(p)
      <4>1. disk' = disk
        BY <2>1, <3>4 DEF RunStep, FileStep, Start, StartReplay, Execute, CheckDestination,
           Preflight, Finish, IoFails
      <4> QED
        BY <4>1
    <3> QED
      BY <3>1, <3>2, <3>3, <3>4
  <2>2. ASSUME NEW p \in Processes, Crash(p)
        PROVE  dir \in DOMAIN disk' /\ disk'[dir] = disk[dir]
    BY <2>2 DEF Crash, Progress
  <2>3. ASSUME NEW other \in DOMAIN disk, Damage(other)
        PROVE  proc' = proc /\ faults' # faults
    <3>1. proc' = proc /\ faults' = faults + 1
      BY <2>3 DEF Damage
    <3>2. faults \in Nat
      BY <1>1 DEF IInv
    <3> QED
      BY <3>1, <3>2
  <2> QED
    BY <1>1, <2>1, <2>2, <2>3 DEF Next, Fault
<1> QED
  BY <1>1, Invariant, PTL DEF Spec, PublishedImmutable

\* SelectProcessExit answers 0 only for a run that was published, completely and
\* under its own name, and that succeeded or failed as was expected, without a
\* difference from the run it repeats.
THEOREM ZeroMeansPublished == Spec => []ExitZeroMeansPublished
<1>1. IInv => ExitZeroMeansPublished
  <2> SUFFICES ASSUME IInv, NEW p \in Processes, proc[p].pc = "done" /\ proc[p].exit = 0
               PROVE  Published(proc[p], disk, faults)
    BY DEF ExitZeroMeansPublished, Published, Written
  <2> QED
    BY DEF IInv, Sound
<1> QED
  BY <1>1, Invariant, PTL

\* NewRunId reserves nothing: two processes can choose one name.  The creation
\* of the directory lets only one of them write there.
THEOREM OneWriterEach == Spec => []OneWriter
<1>1. IInv => OneWriter
  BY DEF IInv
<1> QED
  BY <1>1, Invariant, PTL
=============================================================================
