------------------------------- MODULE Codecs -------------------------------
(***************************************************************************)
(* The pure parts of the client - QrCode, Envelope, RelayUrl - put to the  *)
(* test: each state holds one input, and the invariants compare what the   *)
(* code makes of it with what a reader of the result must find.            *)
(***************************************************************************)
EXTENDS QrCode, Envelope, RelayUrl

CONSTANTS
    Origins,   \* addresses typed or stored
    Lines,     \* lines of modules to score
    Texts,     \* lengths of texts to draw, and the level
    Persons    \* contacts, in the order of their names

ASSUME OriginsAssumption == \A a \in Origins : a.path \in Seq(STRING)

VARIABLE input

-----------------------------------------------------------------------------
(* Envelopes that clients have made, and what may arrive.                  *)

Contexts == {"", "g"}
Everyone == Persons

\* Message n is by person n, in both contexts.
Recipients(n, c) == IF c = "" THEN {n, 2} ELSE Everyone

MessageMade(n, c) ==
    [by |-> n, context |-> c, content |-> <<n, c>>,
     payload |-> EncryptMessage(<<"m", n, c>>, <<n, c>>, Recipients(n, c), n, c)]

MessagesMade == {MessageMade(n, c) : n \in Persons, c \in Contexts}

FileMade(n, c) ==
    LET f == EncryptFile(<<"f", n, c>>, <<n, c>>, <<"name", n, c>>, Recipients(n, c), n, c)
    IN  [by |-> n, context |-> c, content |-> <<"name", n, c>>, bytes |-> <<n, c>>,
         cipher |-> f.cipher, payload |-> f.payload]

FilesMade == {FileMade(n, c) : n \in Persons, c \in Contexts}

\* A file in the first format, as older clients sent it
LegacyMade(n, c) ==
    LET ct == Sealed(<<"l", n, c>>, <<<<"l", n, c>>, "iv">>, <<n, c>>)
        p  == [v |-> 1, meta |-> <<"name", n, c>>, iv |-> <<<<"l", n, c>>, "iv">>,
               keys |-> WrapCek(<<"l", n, c>>, Everyone), signature |-> Unsigned]
    IN  [by |-> n, context |-> c, content |-> p.meta, bytes |-> <<n, c>>, cipher |-> ct,
         payload |-> [p EXCEPT !.signature = Signed(n, LegacyTranscript(p, c))]]

LegaciesMade == {LegacyMade(n, c) : n \in Persons, c \in Contexts}

\* Payloads put together from two: some fields of p are those of q.
Mixed(p, q, fields) == [f \in DOMAIN p |-> IF f \in fields THEN q[f] ELSE p[f]]
MixedOf(made) ==
    UNION {{Mixed(p.payload, q.payload, fields) : fields \in UNION {kSubset(k, DOMAIN p.payload) : k \in 0..2}}
              : p \in made, q \in made}

\* A file of the second format made to look like one of the first
Stripped(f) ==
    [v |-> 1, meta |-> f.content, iv |-> f.payload.iv, keys |-> f.payload.keys,
     signature |-> f.payload.signature]

\* Vaults as some version of the client, or nobody, sealed them
WorkFactors == {0, 1, 99999, 100000, 250000, 599999, 600000, 10000000, 10000001}
VaultMade(i) ==
    [SealVault(1, "identity", "password") EXCEPT
        !.iter = i, !.ciphertext.key = <<"password", 1, IF i = 0 THEN LegacyIterations ELSE i>>]

-----------------------------------------------------------------------------
(* The inputs.                                                             *)

About(topic) == [kind |-> "none", topic |-> topic]

InputInit ==
    input \in {About(t) : t \in {"size", "layout", "line", "text", "message", "file",
                                 "legacy", "download", "vault", "address", "look"}}

ChooseSize == \E v \in Versions : input' = [kind |-> "size", version |-> v]
ChooseLayout == \E v \in Versions, l \in Levels :
    input' = [kind |-> "layout", version |-> v, level |-> l]
ChooseLine == \E line \in Lines : input' = [kind |-> "line", line |-> line]
ChooseText == \E t \in Texts :
    input' = [kind |-> "text", bytes |-> t.bytes, level |-> t.level,
              symbol |-> EncodeText(t.bytes, t.level)]

ChooseEnvelope(made, payloads, kind) ==
    \E p \in payloads, n \in Persons, me \in Persons, c \in Contexts, alert \in BOOLEAN :
        input' = [kind |-> "envelope", made |-> made, me |-> me, context |-> c, alert |-> alert,
                  env |-> [kind |-> kind, sender |-> n, payload |-> p]]
ChooseMessage == ChooseEnvelope(MessagesMade, MixedOf(MessagesMade), "message")
ChooseFile == ChooseEnvelope(FilesMade, MixedOf(FilesMade), "file")
ChooseLegacy ==
    ChooseEnvelope(LegaciesMade, MixedOf(LegaciesMade) \cup {Stripped(f) : f \in FilesMade}, "file")

\* A download: the bytes stored for a file, those of another, or others under
\* the same key
ChooseDownload == \E f \in FilesMade, me \in Persons :
    \E cipher \in {g.cipher : g \in FilesMade} \cup {[f.cipher EXCEPT !.body = <<0, "">>]} :
        input' = [kind |-> "download", file |-> f, cipher |-> cipher, me |-> me]

ChooseVault == \E i \in WorkFactors, right \in BOOLEAN :
    input' = [kind |-> "vault", right |-> right, vault |-> VaultMade(i)]

ChooseAddress == \E a \in Origins, page \in {"http", "https"}, extension \in BOOLEAN :
    input' = [kind |-> "address", typed |-> a, page |-> page, extension |-> extension]

\* Every preference the client stores, none, and one it does not know
ChooseLook == \E b \in Browsers(Themes \cup {NoValue, "unknown"}, ChatColors \cup {NoValue, "unknown"}) :
    input' = [kind |-> "look", browser |-> b]

InputNext ==
    \/ input = About("size")     /\ ChooseSize
    \/ input = About("layout")   /\ ChooseLayout
    \/ input = About("line")     /\ ChooseLine
    \/ input = About("text")     /\ ChooseText
    \/ input = About("message")  /\ ChooseMessage
    \/ input = About("file")     /\ ChooseFile
    \/ input = About("legacy")   /\ ChooseLegacy
    \/ input = About("download") /\ ChooseDownload
    \/ input = About("vault")    /\ ChooseVault
    \/ input = About("address")  /\ ChooseAddress
    \/ input = About("look")     /\ ChooseLook

InputSpec == InputInit /\ [][InputNext]_input

-----------------------------------------------------------------------------
(* A reader of QR codes, from the standard.                                *)

\* The product in the field, by long division
FieldProduct(x, y) ==
    FoldLeft(LAMBDA s, k : IF k \in s THEN SymDiff(s, Shift(FieldPoly, k - 8)) ELSE s,
             {k \in 0..14 : Cardinality({i \in x : k - i \in y}) % 2 = 1},
             <<14, 13, 12, 11, 10, 9, 8>>)

\* The value of a polynomial, given by its coefficients from the highest
ValueAt(poly, x) == FoldLeft(LAMBDA v, c : IF v = {} THEN c ELSE SymDiff(FieldProduct(v, x), c), {}, poly)

FieldPower(i) == FoldLeft(LAMBDA p, j : FieldProduct(p, {1}), {0}, [j \in 1..i |-> j])

\* Two columns at a time from the right, the timing column apart, up and down
ReadingOrder(ver) ==
    LET n == Size(ver)
        columns == SelectSeq([k \in 1..n |-> n - k], LAMBDA x : x # 6)
        Pair(p) == [k \in 1..2 * n |->
                      <<columns[2 * p - 1 + ((k - 1) % 2)],
                        IF p % 2 = 1 THEN n - 1 - ((k - 1) \div 2) ELSE (k - 1) \div 2>>]
    IN  FlattenSeq([p \in 1..(n - 1) \div 2 |-> Pair(p)])

\* The codewords of block b, from the sequence read: data first, then checks
BlockOf(read, b, ver, ecl) ==
    LET n     == NumErrorCorrectionBlocks[ecl][ver]
        ecc   == EccCodewordsPerBlock[ecl][ver]
        total == Len(read)
        data  == (total - n * ecc) \div n
        long  == b > n - ((total - n * ecc) % n)
    IN  [i \in 1..data |-> read[(i - 1) * n + b]]
        \o (IF long THEN <<read[data * n + b - (n - ((total - n * ecc) % n))]>> ELSE <<>>)
        \o [i \in 1..ecc |-> read[total - n * ecc + (i - 1) * n + b]]

\* What a reader finds: the level, the text, and whether the codewords are in
\* order
Read(dark, ver) ==
    LET found == CHOOSE f \in [level : Levels, mask : 0..7] :
                    {i \in 0..14 : FormatAt(i) \in dark} = FormatWord(f.level, f.mask)
        again == {i \in 0..14 : FormatAgainAt(i, ver) \in dark}
        function == FunctionPatterns(ver, found.level).function
        plain == {m \in Modules(ver) : (m \in dark) # Inverts(found.mask, m[1], m[2])}
        places == SelectSeq(ReadingOrder(ver), LAMBDA m : m \notin function)
        read  == Listed([k \in 1..Len(places) \div 8 |-> {i \in 0..7 : places[8 * k - i] \in plain}])
        n     == NumErrorCorrectionBlocks[found.level][ver]
        ecc   == EccCodewordsPerBlock[found.level][ver]
        blocks == Listed([b \in 1..n |-> BlockOf(read, b, ver, found.level)])
        bits  == FlattenSeq([b \in 1..n |->
                    FlattenSeq([k \in 1..Len(blocks[b]) - ecc |-> Bits(blocks[b][k], 8)])])
        Number(from, len) == {i \in 0..len - 1 : bits[from + len - i]}
        width == CountBits(ver)
        count == MapThenSumSet(LAMBDA i : 2^i, Number(4, width))
    IN  [level |-> found.level,
         sound |-> /\ again = FormatWord(found.level, found.mask)
                   /\ \A b \in 1..n, i \in 0..ecc - 1 : ValueAt(blocks[b], FieldPower(i)) = {}
                   /\ Number(0, 4) = {2},
         bytes |-> [k \in 1..count |-> Number(4 + width + 8 * (k - 1), 8)],
         rest  |-> SubSeq(bits, 4 + width + 8 * count + 1, Len(bits))]

(* The penalty of a line, from the standard: runs of five and more, and dark *)
(* light 3 dark light dark in any width, with four light at one side.        *)
LineReference(line) ==
    LET At(i) == i \in DOMAIN line /\ line[i]
        size  == Len(line)
        Same(i, j) == \A k \in i..j : line[k] = line[i]
        runs  == {r \in (1..size) \X (1..size) :
                    /\ r[1] <= r[2] /\ Same(r[1], r[2])
                    /\ r[1] = 1 \/ line[r[1] - 1] # line[r[1]]
                    /\ r[2] = size \/ line[r[2] + 1] # line[r[2]]}
        All(i, len, colour) == \A k \in i..i + len - 1 : At(k) = colour
        finders == {p \in (1..size) \X (1..size \div 7) :
                      LET i == p[1] n == p[2]
                      IN  /\ All(i, n, TRUE) /\ All(i + n, n, FALSE) /\ All(i + 2 * n, 3 * n, TRUE)
                          /\ All(i + 5 * n, n, FALSE) /\ All(i + 6 * n, n, TRUE)
                          /\ All(i - n, n, FALSE) /\ All(i + 7 * n, n, FALSE)}
        before == {p \in finders : All(p[1] - 4 * p[2], 4 * p[2], FALSE)}
        after  == {p \in finders : All(p[1] + 7 * p[2], 4 * p[2], FALSE)}
    IN  MapThenSumSet(LAMBDA r : IF r[2] - r[1] >= 4 THEN r[2] - r[1] - 1 ELSE 0, runs)
        + 40 * (Cardinality(before) + Cardinality(after))

-----------------------------------------------------------------------------
(* A reader who knows only the standard finds in the symbol the level and    *)
(* the text that were encoded, the checks of every block come out even, and  *)
(* after the text there is nothing but the terminator and the padding.       *)
SymbolsRead ==
    input.kind = "text" =>
        LET r == Read(input.symbol.dark, input.symbol.version)
        IN  /\ r.sound /\ r.level = input.level /\ r.bytes = input.bytes
            /\ \A i \in 1..4 : ~r.rest[i]
            /\ \A k \in 1..(Len(r.rest) - 4) \div 8 :
                  SubSeq(r.rest, 8 * k - 3, 8 * k + 4) = Bits(BitsOf(IF k % 2 = 1 THEN 236 ELSE 17), 8)

(* In every version, what is left by the function patterns is exactly what   *)
(* the capacity says, is visited once, and is filled by every codeword of    *)
(* every block once, the blocks' data being all of the data.                 *)
CapacityIsUsed ==
    /\ input.kind = "size" =>
          LET ver == input.version
          IN  /\ NumRawDataModules(ver) =
                    Cardinality(Modules(ver) \ FunctionPatterns(ver, "LOW").function)
              /\ Range(Zigzag(ver)) = Modules(ver) \ {<<6, y>> : y \in 0..Size(ver) - 1}
    /\ input.kind = "layout" =>
          LET ver == input.version ecl == input.level
              data   == [k \in 1..NumDataCodewords(ver, ecl) |-> k]
              blocks == DataBlocks(data, ver, ecl)
              eccs   == [b \in DOMAIN blocks |->
                            [i \in 1..EccCodewordsPerBlock[ecl][ver] |-> -100 * b - i]]
              sent   == Interleaved(blocks, eccs)
          IN  /\ Len(sent) = RawCodewords(ver) /\ FlattenSeq(blocks) = data
              /\ \A b \in DOMAIN blocks : BlockOf(sent, b, ver, ecl) = blocks[b] \o eccs[b]

(* A reader can mistake three bits of a format word, and three of a version  *)
(* word, and still tell which one it was.                                    *)
WordsApart ==
    input.kind = "size" =>
        \A v \in Versions :
            LET Apart(word(_), distance) ==
                    v # input.version => Cardinality(SymDiff(word(v), word(input.version))) >= distance
                Format32(n) == FormatWord(CHOOSE e \in Levels : FormatOf[e] = (n - 1) \div 8, (n - 1) % 8)
            IN  /\ v <= 32 /\ input.version <= 32 => Apart(Format32, 7)
                /\ v >= 7 /\ input.version >= 7 => Apart(VersionWord, 8)

\* Both: where the modules go, and what the words at fixed places say.
LayoutIsSound == CapacityIsUsed /\ WordsApart

(* The penalty of a line that the code sums up run by run, with the light    *)
(* border at both ends, is the one the standard defines.                     *)
PenaltiesAgree == input.kind = "line" => LinePenalty(input.line) = LineReference(input.line)

(* A row is shown as verified only if its envelope is, whole, one that the   *)
(* sender made for this conversation, and the sender's key is not in         *)
(* question; whoever it is addressed to then sees what was sent.  An         *)
(* envelope put together from two, or moved to another conversation, is not  *)
(* shown, or - a file of the first format - shown as unverified.             *)
RowsAreAuthentic ==
    input.kind = "envelope" =>
        LET row == Row(input.env, input.me, input.alert, input.context)
            made == {m \in input.made : /\ m.by = input.env.sender
                                        /\ m.context = input.context /\ m.payload = input.env.payload}
            Shown(m) == IF input.env.kind = "message" THEN row.content = m.content
                        ELSE row.content.meta = m.content
        IN  /\ row.verified => made # {} /\ ~input.alert
            /\ \A m \in made : input.me \in DOMAIN m.payload.keys =>
                  row.kind = input.env.kind /\ Shown(m) /\ row.verified = ~input.alert
            /\ row.kind # "error" /\ made = {} =>
                  input.env.kind = "file" /\ ~IsFileV2(input.env.payload)

(* Whatever bytes the relay returns for a file, a download that succeeds     *)
(* gives those that were sent, to those they were sent to.                   *)
FilesAreAuthentic ==
    input.kind = "download" =>
        LET f == input.file
            got == DecryptFile(input.cipher, f.payload, input.me, f.by, f.context)
        IN  /\ got.ok => got.value = f.bytes /\ input.me \in DOMAIN f.payload.keys
            /\ input.cipher = f.cipher /\ input.me \in DOMAIN f.payload.keys => got.ok

\* Both: what is shown and what is saved is what its sender sent here.
ContentIsAuthentic == RowsAreAuthentic /\ FilesAreAuthentic

(* A vault that some version of the client sealed opens with its password    *)
(* and no other; it is sealed anew exactly if it is weaker than today's, and *)
(* then never again; a file with an absurd work factor is not tried at all.  *)
VaultsOpen ==
    input.kind = "vault" =>
        LET got == OpenVault(input.vault, IF input.right THEN "password" ELSE "other")
            work == input.vault.ciphertext.key[3]
            again == SealVault(2, "identity", "password")
        IN  /\ got.ok <=> input.right /\ work \in WorkAllowed
            /\ got.ok => got.value = "identity"
            /\ VaultNeedsUpgrade(input.vault) <=> work \in WorkAllowed /\ work < VaultIterations
            /\ OpenVault(again, "password").ok /\ ~VaultNeedsUpgrade(again)

(* The address of a relay's WebSocket or of any of its endpoints, pasted     *)
(* where the relay's own is asked for, leads to the same relay, and so does  *)
(* the address once stored - unless the relay's own path ends in /ws.        *)
PastedUrlsAgree ==
    input.kind = "address" =>
        LET chosen == Normalize(input.typed, input.page)
            relay  == Stored(chosen.url)
            origin == [scheme |-> input.page, user |-> FALSE, host |-> "chat.example", path |-> <<>>]
            base   == ApiBase(relay, origin, input.extension, origin)
            Back(a) == Normalize(a, input.page).ok /\ Stored(Normalize(a, input.page).url) = relay
        IN  chosen.ok => /\ (relay.path # <<>> /\ Last(relay.path) = "ws") \/ Back(relay)
                         /\ Back(WsUrl(base, origin))
                         /\ Back([relay EXCEPT !.path = @ \o <<"api", "health">>])
                         /\ ServerOrigin(base, origin) = relay

(* theme.js:8 and preload.js:11 ask to be kept in step: unless preload.js    *)
(* fails, the page is painted first as it is painted once the client runs,   *)
(* whatever is stored.  If it fails the palette is the same yet, and so are  *)
(* the chat accent where the browser has matchMedia and the colour scheme of *)
(* controls and canvas on a dark system.  Applying what was stored changes   *)
(* nothing.                                                                  *)
PaintsOnce ==
    input.kind = "look" =>
        LET b == input.browser
            look  == Appearance(b)
            first == Painted(Preload(b), b)
            later == Painted(look.root, b)
        IN  /\ first = later \/ PreloadFails(b)
            /\ first.palette = later.palette
            /\ b.media => first.accent = later.accent
            /\ b.os = "dark" => first.scheme = later.scheme
            /\ Appearance(look.browser) = look
=============================================================================
