-------------------------------- MODULE HostFs --------------------------------
(***************************************************************************)
(* The host file system as a Commodore DOS device (ieee.c): the LISTEN and *)
(* TALK layer, the sixteen channels, the command channel, the listing, and *)
(* the resolution of DOS names against a tree of host files.  The calls    *)
(* are the KERNAL's, trapped by handle_ieee_intercept (main.c), in any     *)
(* order a guest makes them; no SD card is attached.                       *)
(*                                                                         *)
(* A DOS name or a command is one token, sent by one CIOUT; CR is another. *)
(* DOS error numbers are written as the device shows them.  A file's bytes *)
(* belong to an inode, so that an open file outlives its name.             *)
(***************************************************************************)
EXTENDS Integers, Sequences, SequencesExt

CONSTANTS Names,      \* names of directory entries, in directory order
          Fold,       \* case folding: Fold[n] is the same for names alike
          MaxDepth,   \* depth of the tree
          Inodes,     \* files there can be at once
          Bytes, MaxLen, \* of a file
          Channels,   \* secondary addresses used; 15 is the command channel
          Units,      \* unit numbers used
          OpenNames, Commands, \* tokens the guest sends
          Counts,     \* block lengths asked for; 0 is the code's 256
          MaxActs,    \* bound: OPENs, commands and resets
          PrgFile,    \* -prg was given
          StartTree, StartData \* the tree and its files as the emulator starts

NoFile == 0
Dir == 0
CR == [kind |-> "cr"]
Entries == ToSet(Names)
ErrLen == 2          \* bytes of the error text: any length above one is alike
PrgInode == CHOOSE i \in Inodes : \A j \in Inodes : j <= i

\* Names is a sequence.  The -prg file is not in the tree.  A seek names a
\* channel and a place.
ASSUME HostAssumption ==
    /\ {0, 15} \subseteq Channels /\ Channels \subseteq 0..15
    /\ DOMAIN Names = 1..Len(Names) /\ Len(Names) \in Nat
    /\ MaxDepth \in Nat \ {0} /\ MaxLen \in Nat /\ MaxActs \in Nat
    /\ Inodes \subseteq Nat \ {0} /\ PrgInode \in Inodes /\ 8 \in Units
    /\ Bytes \subseteq Nat /\ Counts \subseteq Nat
    /\ StartTree \in [DOMAIN StartTree -> (Inodes \cup {Dir}) \ {PrgInode}]
    /\ StartData \in [Inodes -> Seq(Nat)]
    /\ \A c \in Commands : c.op = "P" => c.n \in Channels /\ c.to \in Nat
    /\ PrgFile \in BOOLEAN

VARIABLES tree,       \* existing path -> inode; directories have inode 0
          data,       \* inode -> bytes
          hostfscwd, ieee_unit,
          listening, talking, opening, channel, namelen,
          name,       \* channels[].name: <<token>>, or <<>> when empty
          read, write, f,
          hmode, pos, \* of the host's file handle f
          cmd,        \* the tokens in cmd[] up to cmdlen
          cmd0,       \* cmd[0] is the P or T of a command already executed
          error, error_pos,
          dirlist,    \* the listing buffer and its directory stream, with what
                      \* it should show (whole) and has shown (listed)
          prg_consumed,
          log,        \* what passed through each channel since it was opened
          acts        \* counts up to MaxActs

naming == <<hostfscwd, ieee_unit>>
bus == <<listening, talking, opening, channel, namelen>>
chans == <<name, read, write, f, hmode, pos, log>>
files == <<tree, data>>
cmds == <<cmd, cmd0>>
errors == <<error, error_pos>>
vars == <<files, naming, bus, chans, cmds, errors, dirlist, prg_consumed, acts>>

IsDir(p) == p = <<>> \/ (p \in DOMAIN tree /\ tree[p] = Dir)
IsFile(p) == p \in DOMAIN tree /\ tree[p] # Dir
Order(n) == CHOOSE k \in DOMAIN Names : Names[k] = n
Free == CHOOSE i \in Inodes \ {PrgInode} :
            (\A p \in DOMAIN tree : tree[p] # i) /\ (\A c \in Channels : f[c] # i)
HasFree == \E i \in Inodes \ {PrgInode} :
            (\A p \in DOMAIN tree : tree[p] # i) /\ (\A c \in Channels : f[c] # i)

-----------------------------------------------------------------------------
(* Names, as parse_dos_filename leaves them: the overwrite flag "@", whether *)
(* the path is absolute, its directories and its last element, which is a    *)
(* plain name, "*" or "..".  Other tokens name a listing or do not parse.    *)
File(last, mode) ==
    [kind |-> "file", ow |-> FALSE, root |-> FALSE, via |-> <<>>, last |-> last, mode |-> mode]
In(tok, dirs) == [tok EXCEPT !.root = TRUE, !.via = dirs]
At(tok) == [tok EXCEPT !.ow = TRUE]
\* A listing: the types of entry it shows, and its text, which names a file when
\* it is opened to write.
Listing(kind, type, text) ==
    [kind |-> kind, type |-> type, ow |-> FALSE, root |-> FALSE, via |-> <<>>, last |-> text,
     mode |-> "R"]

\* resolve_path_iso, resolve_path_utf8: the error, the path, and path_exists.
Failed(e) == [err |-> e, path |-> <<>>, exists |-> FALSE]
Found(p) == [err |-> 0, path |-> p, exists |-> TRUE]

Alike(n, last) == last = "*" \/ Fold[n] = Fold[last]
OfType(p, type) == CASE type = "DIR" -> IsDir(p) [] type = "PRG" -> IsFile(p)
                     [] OTHER -> TRUE

Matches(base, last, type) ==
    {n \in Entries : /\ Append(base, n) \in DOMAIN tree
                     /\ Alike(n, last)
                     /\ OfType(Append(base, n), type)}
FirstOf(S) == CHOOSE n \in S : \A o \in S : Order(n) <= Order(o)

\* The place of a file that does not exist: an absolute name with directories
\* is put under the cwd.
NewPath(tok) ==
    (IF tok.root /\ tok.via = <<>> THEN <<>> ELSE hostfscwd) \o Append(tok.via, tok.last)

\* The first match in directory order; else, unless it must exist, a new file.
Resolve(tok, must_exist, type) ==
    LET base == (IF tok.root THEN <<>> ELSE hostfscwd) \o tok.via
        matches == Matches(base, tok.last, type)
        exact == Append(base, tok.last)
    IN  IF ~IsDir(base) THEN Failed(62)
        ELSE IF tok.last = ".." THEN
            IF base = <<>> THEN Failed(62) ELSE Found(Front(base))
        ELSE IF matches # {} THEN Found(Append(base, FirstOf(matches)))
        ELSE IF tok.last # "*" /\ exact \in DOMAIN tree THEN Found(exact)
        ELSE IF tok.last = "*" \/ must_exist THEN Failed(62)
        ELSE [err |-> 0, path |-> NewPath(tok), exists |-> FALSE]

\* set_error and clear_error
SetError(e) == error' = e /\ error_pos' = 0

\* The tree with an entry, and without one.
Adding(p, i) == [q \in DOMAIN tree \cup {p} |-> IF q = p THEN i ELSE tree[q]]
Without(p) == [q \in DOMAIN tree \ {p} |-> tree[q]]

\* The host can create an entry there.
Creatable(p) == Len(p) <= MaxDepth /\ IsDir(Front(p)) /\ p \notin DOMAIN tree

-----------------------------------------------------------------------------
(* cclose, and copen on a channel other than 15 *)
Closed(ch) ==
    /\ name' = [name EXCEPT ![ch] = <<>>]
    /\ f' = [f EXCEPT ![ch] = NoFile]

Fresh(bytes) ==
    [old |-> bytes, seen |-> <<>>, put |-> <<>>, end |-> "no", plain |-> TRUE]

Reads(ch, mode) == IF ch <= 1 THEN ch = 0 ELSE mode \in {"R", "M"}
Writes(ch, mode) == IF ch <= 1 THEN ch = 1 ELSE mode # "R"

\* create_cwd_listing fills the buffer with the elements of the cwd at once.
PathListing(tok) ==
    [chunk |-> <<>>, pos |-> 0, eof |-> TRUE, left |-> {}, type |-> tok.type,
     listed |-> <<>>, whole |-> {}, clean |-> FALSE]

\* create_directory_listing fills it with the header and opens the directory.
OpenListing(tok) ==
    LET here == {n \in Entries : Append(hostfscwd, n) \in DOMAIN tree}
    IN  dirlist' = IF tok.kind = "cwd" THEN PathListing(tok)
                   ELSE [PathListing(tok) EXCEPT !.eof = FALSE, !.left = here, !.clean = TRUE,
                             !.whole = {n \in here : OfType(Append(hostfscwd, n), tok.type)}]

\* A step that only adds to the tree leaves a listing under way as it was.
OnlyAdded ==
    /\ hostfscwd' = hostfscwd
    /\ \A p \in DOMAIN tree : p \in DOMAIN tree' /\ tree'[p] = tree[p]

\* Mutation: a file to be appended to is opened as one to be written.
HostMode_wb(ch, mode) ==
    IF Writes(ch, mode) THEN IF Reads(ch, mode) THEN "rw" ELSE "wb" ELSE "rb"

\* How the host is asked to open the file: "rw" is "rb+" if it exists, or "wb+".
HostMode(ch, mode) ==
    IF mode = "A" THEN "ab"
    ELSE IF Writes(ch, mode) THEN IF Reads(ch, mode) THEN "rw" ELSE "wb"
    ELSE "rb"

OpenAt(ch, tok, r) ==
    LET new == r.path \notin DOMAIN tree
        ino == IF new THEN Free ELSE tree[r.path]
    IN  /\ data' = IF HostMode(ch, tok.mode) = "wb" \/ new
                   THEN [data EXCEPT ![ino] = <<>>] ELSE data
        /\ tree' = IF new THEN Adding(r.path, ino) ELSE tree
        /\ f' = [f EXCEPT ![ch] = ino]
        /\ hmode' = [hmode EXCEPT ![ch] = HostMode(ch, tok.mode)]
        /\ pos' = [pos EXCEPT ![ch] = 0]
        /\ log' = [log EXCEPT ![ch] =
                      Fresh(IF tok.mode = "A" /\ ~new THEN data[ino] ELSE data'[ino])]

\* "forbid overwrite unless requested"
Forbidden(ch, tok, r) ==
    r.exists /\ ~tok.ow /\ tok.mode # "A" /\ ~Reads(ch, tok.mode)

CanOpen(ch, tok, r) ==
    \/ IsFile(r.path)
    \/ HostMode(ch, tok.mode) # "rb" /\ Creatable(r.path)

\* The -prg file is handed out once, whatever the channel.
OpenPrg(ch) ==
    /\ prg_consumed' = TRUE
    /\ f' = [f EXCEPT ![ch] = PrgInode]
    /\ hmode' = [hmode EXCEPT ![ch] = "rb"]
    /\ pos' = [pos EXCEPT ![ch] = 0]
    /\ log' = [log EXCEPT ![ch] = Fresh(data[PrgInode])]

\* A listing opened to write is a file, "$" and all; so is the -prg file's name
\* once that has been handed out.
NamesFile(ch, tok) ==
    \/ tok.kind = "file"
    \/ tok.kind = "prg" /\ (~PrgFile \/ prg_consumed)
    \/ tok.kind \in {"dir", "cwd"} /\ Writes(ch, tok.mode)

\* An OPEN that fails before it asks the host leaves the handle of the one
\* before; if the host refuses, there is none.
Copen(ch, named) ==
    LET tok == IF named = <<>> THEN [kind |-> "empty", mode |-> "R"] ELSE named[1]
        r == Resolve(tok, FALSE, "PRG")
        handle == <<f, hmode, pos, log>>
    IN  /\ read' = [read EXCEPT ![ch] = Reads(ch, tok.mode)]
        /\ write' = [write EXCEPT ![ch] = Writes(ch, tok.mode)]
        /\ \/ /\ tok.kind = "empty" /\ SetError(34)
              /\ UNCHANGED <<files, handle, prg_consumed, dirlist>>
           \/ /\ tok.kind = "bad" /\ SetError(32)
              /\ UNCHANGED <<files, handle, prg_consumed, dirlist>>
           \/ /\ tok.kind \in {"dir", "cwd"} /\ ~Writes(ch, tok.mode)
              /\ OpenListing(tok)
              /\ UNCHANGED <<files, handle, errors, prg_consumed>>
           \/ /\ tok.kind = "prg" /\ PrgFile /\ ~prg_consumed
              /\ OpenPrg(ch)
              /\ SetError(0)
              /\ UNCHANGED <<files, dirlist>>
           \/ /\ NamesFile(ch, tok)
              /\ IF r.err # 0 \/ Forbidden(ch, tok, r)
                 THEN SetError(IF r.err # 0 THEN r.err ELSE 63) /\ UNCHANGED <<files, handle>>
                 ELSE IF CanOpen(ch, tok, r) THEN OpenAt(ch, tok, r) /\ SetError(0)
                 ELSE /\ SetError(62)
                      /\ f' = [f EXCEPT ![ch] = NoFile]
                      /\ log' = [log EXCEPT ![ch] = Fresh(<<>>)]
                      /\ UNCHANGED <<files, hmode, pos>>
              /\ UNCHANGED <<prg_consumed, dirlist>>

\* What guests do not do: open a file that another channel has open, or reuse a
\* channel they write through without closing it.
PoliteOpen(ch, named) ==
    /\ f[ch] # NoFile => hmode[ch] = "rb"
    /\ named # <<>> /\ NamesFile(ch, named[1]) =>
         LET r == Resolve(named[1], FALSE, "PRG")
         IN  /\ \A c \in Channels \ {ch} : f[c] # NoFile =>
                   ~(r.path \in DOMAIN tree /\ tree[r.path] = f[c])
             /\ r.path \in DOMAIN tree \/ HasFree

-----------------------------------------------------------------------------
(* command: a command's file tokens are a (and b). *)
Moved(x, p, q) == IF IsPrefix(p, x) THEN q \o SubSeq(x, Len(p) + 1, Len(x)) ELSE x
Rename(p, q) ==
    [x \in {Moved(y, p, q) : y \in DOMAIN tree} |->
        tree[CHOOSE y \in DOMAIN tree : Moved(y, p, q) = x]]
IsEmpty(p) == \A q \in DOMAIN tree : ~IsStrictPrefix(p, q)

\* cchdir
ChangeDir(c) ==
    LET r == Resolve(c.a, TRUE, "DIR")
        e == IF r.err # 0 THEN r.err ELSE IF ~IsDir(r.path) THEN 39 ELSE 0
    IN  /\ SetError(e)
        /\ hostfscwd' = IF e = 0 THEN r.path ELSE hostfscwd
        /\ UNCHANGED <<tree, ieee_unit>>

\* cmkdir
MakeDir(c) ==
    LET r == Resolve(c.a, FALSE, "DIR")
        e == IF r.err # 0 THEN r.err ELSE IF r.path \in DOMAIN tree THEN 63
             ELSE IF Creatable(r.path) THEN 0 ELSE 62
    IN  /\ SetError(e)
        /\ tree' = IF e = 0 THEN Adding(r.path, Dir) ELSE tree
        /\ UNCHANGED naming

\* crmdir
RemoveDir(c) ==
    LET r == Resolve(c.a, TRUE, "DIR")
        e == IF r.err # 0 THEN 39 ELSE IF ~IsDir(r.path) THEN 62
             ELSE IF IsEmpty(r.path) THEN 0 ELSE 63
    IN  /\ SetError(e)
        /\ tree' = IF e = 0 THEN Without(r.path) ELSE tree
        /\ UNCHANGED naming

\* cunlink: error 01 is "files scratched".
Scratch(c) ==
    LET r == Resolve(c.a, TRUE, "PRG")
        e == IF r.err # 0 \/ ~IsFile(r.path) THEN 62 ELSE 1
    IN  /\ SetError(e)
        /\ tree' = IF e = 1 THEN Without(r.path) ELSE tree
        /\ UNCHANGED naming

\* crename, which parses no path.
RenameFile(c) ==
    LET s == Resolve(c.b, TRUE, "")
        d == Resolve(c.a, FALSE, "")
        e == IF s.err # 0 THEN 62 ELSE IF d.err # 0 THEN 39
             ELSE IF d.path \in DOMAIN tree THEN 63
             ELSE IF IsPrefix(s.path, d.path) THEN 33
             ELSE IF Creatable(d.path) THEN 0 ELSE 62
    IN  /\ SetError(e)
        /\ tree' = IF e = 0 THEN Rename(s.path, d.path) ELSE tree
        /\ UNCHANGED naming


\* cseek: nothing is said of a seek that succeeds.
Seek(c) ==
    /\ IF c.n = 15 THEN SetError(30)
       ELSE IF f[c.n] = NoFile THEN SetError(70) ELSE UNCHANGED errors
    /\ IF c.n = 15 \/ f[c.n] = NoFile THEN UNCHANGED <<pos, log>>
       ELSE /\ pos' = [pos EXCEPT ![c.n] = c.to]
            /\ log' = [log EXCEPT ![c.n].plain = FALSE]
    /\ UNCHANGED <<tree, naming>>

\* ctell: 07 carries the position and the size.
Tell(c) ==
    /\ SetError(IF c.n = 15 THEN 30 ELSE IF f[c.n] = NoFile THEN 70 ELSE 7)
    /\ UNCHANGED <<tree, naming>>

\* S-8, S-9, S-D and U0>
ChangeUnit(c) ==
    /\ SetError(IF c.n \in 8..15 THEN 0 ELSE c.else)
    /\ ieee_unit' = IF c.n \in 8..15 THEN c.n ELSE ieee_unit
    /\ UNCHANGED <<tree, hostfscwd>>

\* What the device answers to the commands that do nothing else.
Says(op) == CASE op = "I" -> 0 [] op = "UI" -> 73 [] op = "CP" -> 2 [] op = "M" -> 31
              [] OTHER -> 30
TakesName == {"CD", "MD", "RD", "S", "R"}
IsBinary(toks) == toks # <<>> /\ toks[1] # CR /\ toks[1].op \in {"P", "T"}

\* A second token, left over in cmd[] or sent with the first, spoils a name.
Command(toks) ==
    LET c == toks[1]
        op == IF c = CR THEN "cr" ELSE c.op
    IN  IF toks = <<>> THEN UNCHANGED <<tree, naming, errors, pos, log, dirlist>>
        ELSE /\ \/ /\ op \in TakesName /\ Len(toks) > 1
                   /\ SetError(IF op = "RD" THEN 39 ELSE 62)
                   /\ UNCHANGED <<tree, naming>>
                \/ /\ Len(toks) = 1
                   /\ \/ op = "CD" /\ ChangeDir(c)
                      \/ op = "MD" /\ MakeDir(c)
                      \/ op = "RD" /\ RemoveDir(c)
                      \/ op = "S" /\ Scratch(c)
                      \/ op = "R" /\ RenameFile(c)
                \/ op = "P" /\ Seek(c)
                \/ op = "T" /\ Tell(c)
                \/ op = "unit" /\ ChangeUnit(c)
                \/ /\ op \notin TakesName \cup {"P", "T", "unit"}
                   /\ SetError(Says(op))
                   /\ UNCHANGED <<tree, naming>>
             /\ op # "P" => UNCHANGED <<pos, log>>
             /\ dirlist' = [dirlist EXCEPT !.clean = @ /\ OnlyAdded]

-----------------------------------------------------------------------------
(* The KERNAL's calls.  One that is not for this device is left to the KERNAL. *)
rest == <<files, naming, cmds, errors, dirlist, prg_consumed>>

Acts(does) ==
    IF does THEN acts < MaxActs /\ acts' = acts + 1 ELSE UNCHANGED acts

LISTEN(u) ==
    /\ u = ieee_unit
    /\ listening' = TRUE
    /\ UNCHANGED <<talking, opening, channel, namelen, chans, rest, acts>>

TALK(u) ==
    /\ u = ieee_unit
    /\ talking' = TRUE
    /\ UNCHANGED <<listening, opening, channel, namelen, chans, rest, acts>>

SECOND(kind, ch) ==
    /\ listening
    /\ channel' = ch
    /\ opening' = (kind = "open")
    /\ namelen' = IF kind = "open" THEN 0 ELSE namelen
    /\ IF kind = "close"
       THEN Closed(ch) /\ log' = [log EXCEPT ![ch] = Fresh(<<>>)]
       ELSE UNCHANGED <<name, f, log>>
    /\ Acts(kind = "open")
    /\ UNCHANGED <<listening, talking, read, write, hmode, pos, rest>>

TKSA(ch) ==
    /\ talking
    /\ channel' = ch
    /\ UNCHANGED <<listening, talking, opening, namelen, chans, rest, acts>>

UNTLK ==
    /\ talking
    /\ talking' = FALSE
    /\ UNCHANGED <<listening, opening, channel, namelen, chans, rest, acts>>

\* UNLISTEN opens the file named, or executes the command sent.
UNLSN ==
    LET named == IF namelen = 0 THEN <<>> ELSE name[channel]
        toks == IF opening THEN named ELSE cmd
    IN  /\ listening
        /\ listening' = FALSE
        /\ opening' = FALSE
        /\ UNCHANGED acts
        /\ name' = IF opening THEN [name EXCEPT ![channel] = named] ELSE name
        /\ \/ /\ opening /\ channel # 15
              /\ PoliteOpen(channel, named)
              /\ Copen(channel, named)
              /\ UNCHANGED <<naming, cmds>>
           \/ /\ channel = 15
              /\ Command(toks)
              /\ IF opening THEN UNCHANGED cmds ELSE cmd' = <<>> /\ cmd0' = IsBinary(cmd)
              /\ UNCHANGED <<data, read, write, f, hmode, prg_consumed>>
           \/ /\ ~opening /\ channel # 15
              /\ UNCHANGED <<rest, read, write, f, hmode, pos, log>>
        /\ UNCHANGED <<talking, channel, namelen>>

-----------------------------------------------------------------------------
(* CIOUT: a name, a command, or a byte for a file *)
NameByte(tok) ==
    /\ opening /\ namelen = 0
    /\ (channel = 15) = (tok \in Commands)
    /\ name' = [name EXCEPT ![channel] = <<tok>>]
    /\ namelen' = 1
    /\ UNCHANGED <<listening, talking, opening, channel, read, write, f, hmode, pos, log, rest>>

\* A carriage return ends a command, but for P and T, whose arguments are binary.
CommandByte(tok) ==
    /\ ~opening /\ channel = 15
    /\ IF tok = CR /\ ~(IF cmd = <<>> THEN cmd0 ELSE IsBinary(cmd))
       THEN Command(cmd) /\ cmd' = <<>> /\ cmd0' = IsBinary(cmd)
       ELSE /\ Len(cmd) < 2
            /\ cmd' = Append(cmd, tok)
            /\ UNCHANGED <<tree, naming, pos, log, cmd0, errors, dirlist>>
    /\ UNCHANGED <<data, bus, name, read, write, f, hmode, prg_consumed>>

\* The bytes of s at position p of t, zeroes in between.
Overlay(t, p, s) ==
    [k \in 1..(IF p + Len(s) > Len(t) THEN p + Len(s) ELSE Len(t)) |->
        IF k > p /\ k <= p + Len(s) THEN s[k - p]
        ELSE IF k <= Len(t) THEN t[k] ELSE 0]

\* SDL_WriteU8 of each byte of s; "ab+" writes at the end.
PutBytes(ch, s) ==
    LET at == IF hmode[ch] = "ab" THEN Len(data[f[ch]]) ELSE pos[ch]
    IN  /\ at + Len(s) <= MaxLen
        /\ data' = IF s = <<>> THEN data ELSE [data EXCEPT ![f[ch]] = Overlay(@, at, s)]
        /\ pos' = [pos EXCEPT ![ch] = at + Len(s)]
        /\ log' = [log EXCEPT ![ch].put = @ \o s,
                              ![ch].plain = @ /\ hmode[ch] # "rw"]
        /\ UNCHANGED <<tree, naming, bus, name, read, write, f, hmode, cmds, errors, dirlist,
                       prg_consumed>>

\* The bytes of a block that the host takes: none through a handle opened to
\* read, and not the last one when its disk is full.
Taken(ch, n) == IF hmode[ch] = "rb" THEN {0} ELSE {n - 1, n}

DataBytes(n) ==
    /\ ~opening /\ channel # 15
    /\ write[channel] /\ f[channel] # NoFile
    /\ \E b \in Bytes, taken \in Taken(channel, n) :
           PutBytes(channel, [k \in 1..taken |-> b])

\* A write to a channel that is not open for it is refused and changes nothing.
CIOUT ==
    /\ listening
    /\ \/ \E tok \in OpenNames \cup Commands : NameByte(tok)
       \/ \E tok \in Commands \cup {CR} : CommandByte(tok)
       \/ DataBytes(1)
    /\ Acts(Len(cmd') > Len(cmd))

MCIOUT ==
    /\ listening
    /\ \E n \in Counts \ {0} : DataBytes(n)
    /\ UNCHANGED acts

-----------------------------------------------------------------------------
(* ACPTR: the error text, the listing, a file *)
ErrorByte ==
    /\ channel = 15
    /\ IF error_pos + 1 >= ErrLen THEN SetError(0)
       ELSE error_pos' = error_pos + 1 /\ UNCHANGED error
    /\ UNCHANGED <<files, dirlist, name, read, f, pos, log>>

\* The entry is in the cwd as it is now, and of the type asked for.
Shown(n) ==
    /\ Append(hostfscwd, n) \in DOMAIN tree
    /\ OfType(Append(hostfscwd, n), dirlist.type)

\* Mutation: an entry that is not shown ends the listing.
NextChunk_stops ==
    LET n == FirstOf(dirlist.left)
    IN  IF dirlist.left = {} \/ ~Shown(n)
        THEN [dirlist EXCEPT !.chunk = <<>>, !.pos = 0, !.eof = TRUE]
        ELSE [dirlist EXCEPT !.chunk = <<n>>, !.pos = 0, !.left = @ \ {n}]

\* The blocks free, and the end.
LastChunk == [dirlist EXCEPT !.chunk = <<>>, !.pos = 0, !.eof = TRUE]

\* continue_directory_listing: the next entry shown.
NextChunk ==
    LET ok == {n \in dirlist.left : Shown(n)}
    IN  IF ok = {} THEN LastChunk
        ELSE [dirlist EXCEPT !.chunk = <<FirstOf(ok)>>, !.pos = 0,
                             !.left = {n \in @ : Order(n) > Order(FirstOf(ok))}]

IsListing(ch) == name[ch] # <<>> /\ name[ch][1].kind \in {"dir", "cwd"}

\* The rest of the buffer, which is refilled when its last byte is read.  Each
\* entry looked up clears the error, or leaves "file not found".
ListingByte ==
    LET told == IF dirlist.pos = 0 THEN dirlist.listed \o dirlist.chunk ELSE dirlist.listed
    IN  /\ channel # 15 /\ read[channel] /\ IsListing(channel)
        /\ dirlist' = IF dirlist.eof THEN [dirlist EXCEPT !.pos = 1, !.listed = told]
                      ELSE [NextChunk EXCEPT !.listed = told]
        /\ IF ~dirlist.eof /\ dirlist.left # {}
           THEN \E e \in {0, 62} : SetError(e) ELSE UNCHANGED errors
        /\ UNCHANGED <<files, name, read, f, pos, log>>

\* What is left to read through the handle.
Rest(ch) == IF f[ch] = NoFile \/ hmode[ch] = "wb" THEN <<>>
            ELSE SubSeq(data[f[ch]], pos[ch] + 1, Len(data[f[ch]]))

\* Mutation: a block that ends before the file does is taken for its end.
TakeBytes_early(ch, n) ==
    LET got == SubSeq(Rest(ch), 1, IF n < Len(Rest(ch)) THEN n ELSE Len(Rest(ch)))
    IN  /\ pos' = [pos EXCEPT ![ch] = @ + Len(got)]
        /\ log' = [log EXCEPT ![ch].seen = @ \o got,
                              ![ch].end = IF got = <<>> THEN "none" ELSE "eoi"]
        /\ Closed(ch) /\ read' = [read EXCEPT ![ch] = FALSE]

\* n bytes or those that are left; the last one is marked and closes the file.
TakeBytes(ch, n) ==
    LET got == SubSeq(Rest(ch), 1, IF n < Len(Rest(ch)) THEN n ELSE Len(Rest(ch)))
        last == got # <<>> /\ got = Rest(ch)
        end == IF last THEN "eoi" ELSE IF got = <<>> THEN "none" ELSE "no"
    IN  /\ pos' = [pos EXCEPT ![ch] = @ + Len(got)]
        /\ log' = [log EXCEPT ![ch].seen = @ \o got, ![ch].end = end]
        /\ IF last
           THEN Closed(ch) /\ read' = [read EXCEPT ![ch] = FALSE]
           ELSE UNCHANGED <<name, f, read>>

FileBytes(n) ==
    /\ channel # 15 /\ read[channel] /\ ~IsListing(channel)
    /\ TakeBytes(channel, n)
    /\ UNCHANGED <<files, errors, dirlist>>

ACPTR ==
    /\ talking
    /\ ErrorByte \/ ListingByte \/ FileBytes(1)
    /\ UNCHANGED <<naming, bus, write, hmode, cmds, prg_consumed, acts>>

\* MACPTR and XMACPTR: a block of a file, refused with none open.
MACPTR ==
    /\ talking /\ f[channel] # NoFile
    /\ \E n \in Counts : FileBytes(IF n = 0 THEN MaxLen + 1 ELSE n)
    /\ UNCHANGED <<naming, bus, write, hmode, cmds, prg_consumed, acts>>

-----------------------------------------------------------------------------
\* ieee_init at a machine reset.  The command buffer, the unit, the channel and
\* the listing are left as they are.
Reset ==
    /\ name' = [c \in Channels |-> <<>>]
    /\ f' = [c \in Channels |-> NoFile]
    /\ log' = [c \in Channels |-> Fresh(<<>>)]
    /\ listening' = FALSE /\ talking' = FALSE /\ opening' = FALSE
    /\ hostfscwd' = <<>>
    /\ SetError(73)
    /\ dirlist' = [dirlist EXCEPT !.clean = @ /\ hostfscwd = <<>>]
    /\ Acts(TRUE)
    /\ UNCHANGED <<files, ieee_unit, channel, namelen, read, write, hmode, pos, cmds,
                   prg_consumed>>

\* The first ieee_init; the emulator starts in the root.
Init ==
    /\ tree = StartTree /\ data = StartData
    /\ hostfscwd = <<>> /\ ieee_unit = 8
    /\ listening = FALSE /\ talking = FALSE /\ opening = FALSE
    /\ channel = 0 /\ namelen = 0
    /\ name = [c \in Channels |-> <<>>]
    /\ read = [c \in Channels |-> FALSE] /\ write = [c \in Channels |-> FALSE]
    /\ f = [c \in Channels |-> NoFile]
    /\ hmode = [c \in Channels |-> "rb"] /\ pos = [c \in Channels |-> 0]
    /\ cmd = <<>> /\ cmd0 = FALSE
    /\ error = 73 /\ error_pos = 0
    /\ dirlist = PathListing([type |-> ""])
    /\ prg_consumed = FALSE
    /\ log = [c \in Channels |-> Fresh(<<>>)]
    /\ acts = 0

Next ==
    \/ \E u \in Units : LISTEN(u) \/ TALK(u)
    \/ \E ch \in Channels :
           TKSA(ch) \/ \E kind \in {"open", "data", "close"} : SECOND(kind, ch)
    \/ UNTLK \/ UNLSN \/ CIOUT \/ MCIOUT \/ ACPTR \/ MACPTR \/ Reset

Spec == Init /\ [][Next]_vars

-----------------------------------------------------------------------------
(* Properties *)

\* The guest reads each file from its start, byte for byte, however its calls
\* mix single bytes and blocks and whatever it does with other channels in
\* between; the end is marked with the last byte, and no earlier.
ReadsInOrder ==
    \A c \in Channels : log[c].plain =>
        /\ IsPrefix(log[c].seen, log[c].old)
        /\ log[c].end # "no" => log[c].seen = log[c].old

\* A file opened to write holds the bytes the host has taken, in order, after
\* what it had if it was opened to append; renaming or scratching it, another
\* channel, and a unit change do not disturb that.
StoredAsWritten ==
    \A c \in Channels : f[c] # NoFile /\ hmode[c] \in {"wb", "ab"} /\ log[c].plain =>
        data[f[c]] = log[c].old \o log[c].put

\* Both.
FilesAreKept == ReadsInOrder /\ StoredAsWritten

\* A listing read to its end shows each entry of the type asked for once,
\* whatever else happens between its bytes; but for a change of directory, a
\* reset's included, or of the entries that were there, while it is read.
ListingIsWhole ==
    dirlist.clean /\ dirlist.eof /\ dirlist.pos = 1 =>
        /\ IsInjective(dirlist.listed)
        /\ ToSet(dirlist.listed) = dirlist.whole

\* copen: "forbid overwrite unless requested".  A guest that asks for no
\* overwriting and scratches nothing finds what it had in every file.
NothingLost ==
    \A p \in DOMAIN StartTree : StartTree[p] # Dir =>
        p \in DOMAIN tree /\ IsPrefix(StartData[StartTree[p]], data[tree[p]])
=============================================================================
