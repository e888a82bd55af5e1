-------------------------------- MODULE Util ---------------------------------
(***************************************************************************)
(* The parts that stand by themselves: the byte array, the fibers of a     *)
(* thread, threads with their locks and the daemon as state machines, and  *)
(* the functions of ByteCodec, TextUtil, LogFormatter, Addresses, Files,   *)
(* Env, ConfigYaml, LogDefines and Stream, each called with one input.     *)
(*                                                                         *)
(* An input names the function by its field f and carries the arguments,   *)
(* or names the machine that moves.                                        *)
(***************************************************************************)
EXTENDS ByteArray, ByteCodec, TextUtil, LogFormatter, Addresses, Files, Env, ConfigYaml,
        LogDefines, Stream, Processes

CONSTANTS
  Inputs,   \* the inputs of the functions
  NoInput   \* the byte array moves

VARIABLE input

uvars == <<input, vars, fvars, tvars, dvars>>

Called(f) == input # NoInput /\ input.f = f

UtilInit ==
  /\ Init /\ FiberInit /\ ThreadsInit /\ DaemonInit
  /\ input \in Inputs \cup {NoInput} \cup {[f |-> machine] : machine \in {"fibers", "threads", "daemon"}}

UtilNext ==
  /\ \/ input = NoInput /\ Next /\ UNCHANGED <<fvars, tvars, dvars>>
     \/ Called("fibers") /\ FiberNext /\ UNCHANGED <<vars, tvars, dvars>>
     \/ Called("threads") /\ ThreadsNext /\ UNCHANGED <<vars, fvars, dvars>>
     \/ Called("daemon") /\ DaemonNext /\ UNCHANGED <<vars, fvars, tvars>>
  /\ UNCHANGED input

UtilSpec == UtilInit /\ [][UtilNext]_uvars
------------------------------------------------------------------------------

\* What is written is read back, item by item and with nothing left over, by a
\* reader with the same kinds and byte order: integers of all sizes and signs,
\* the least one included, varints and strings.  Of a stream that was cut, the
\* last item throws and the ones before are right.
CodecRoundTrip ==
  Called("codec") =>
    LET items == input.items
        n     == Len(items)
        s     == WriteAll(items, input.little)
        all   == ReadAll(items, s, input.little)
        cut   == ReadAll(items, SubSeq(s, 1, Len(s) - 1), input.little)
    IN /\ \A k \in 1..n : ~all[k].throws /\ all[k].val = items[k].val
       /\ all[n].rest = <<>>
       /\ \A k \in 1..(n - 1) : cut[k] = [all[k] EXCEPT !.rest = SubSeq(@, 1, Len(@) - 1)]
       /\ cut[n].throws

\* A reader that takes the other byte order gets a fixed integer with its bytes
\* swapped, and a varint all the same.
CodecOrder ==
  Called("codec") =>
    \A k \in 1..Len(input.items) :
      LET it == input.items[k]
          n  == BytesOf(it.kind)
          r  == ReadItem(it.kind, WriteItem(it.kind, it.val, input.little), ~input.little)
      IN /\ it.kind \in Fixed => r.val = byteswap(it.val, n)
         /\ it.kind \in Varints => r.val = it.val

\* A varint fits into the array tmp, and whatever the bytes are, the loop that
\* reads one takes no more than that, nor fewer than the bytes with the
\* continuation bit and one more.
VarintBounded ==
  Called("varint") =>
    LET n    == BytesOf("vu32")
        tmp  == (ByteBits * n + ByteBits - 2) \div (ByteBits - 1)
        r    == ReadUint(input.bytes, n)
        taken == Len(input.bytes) - Len(r.rest)
        more == {i \in 1..Len(input.bytes) : \A j \in 1..i : input.bytes[j] >= Cont}
    IN /\ taken <= tmp
       /\ r.throws <=> Cardinality(more) = Len(input.bytes) /\ Len(input.bytes) < tmp
       /\ ~r.throws =>
            /\ taken = IF Cardinality(more) >= tmp THEN tmp ELSE Cardinality(more) + 1
            /\ r.val \in 0..(Modulus(n) - 1)
            /\ Len(WriteUint(r.val, n)) <= taken

\* Decoding a URL undoes encoding it.
UrlRoundTrips == Called("url") => UrlRoundTrip(input.str)

\* Trim takes off the delimiters on both sides, TrimLeft those in front;
\* TrimRight takes off one character too many.
Trims == Called("trim") => TrimRemoves(input.str, input.delimit)

\* Dirname and Basename give the path back.
PathsSplit == Called("path") => PathSplits(input.str)

\* A log pattern that is accepted loses nothing on the way to its items.
PatternsKept == Called("format") => PatternKept(input.pattern)

\* A log pattern is refused for an unknown letter or an open brace only.
PatternsRefused == Called("format") => RefusedFor(input.pattern)

\* Network, broadcast and mask of an IPv4 address share the first bits.
NetsOfV4 == Called("v4") => V4Nets(input.addr, input.prefix)

\* Broadcast and mask of an IPv6 address share the first bits; its network
\* keeps the wrong bits of one byte.
NetsOfV6 == Called("v6") => V6Nets(input.addr6, input.prefix)

\* The text of an IPv6 address reads as the address.
TextOfV6 == Called("v6text") => V6Text(input.groups)

\* The order of addresses is total and agrees with their equality.
AddressOrder == Called("order") => OrderTotal(input.a, input.b, input.c)

\* A host name is split from its port, with brackets around colons.
HostsSplit == Called("host") => HostSplit(input.name, input.port)

\* Rm tells whether the path is gone, in spite of the results it overwrites.
RemovesTell == Called("fs") => RmTells(input.fs, input.locked, input.path)

\* Mv moves the source, or leaves it where it is; Symlink makes a link or
\* nothing.
MovesKeep ==
  Called("mv") =>
    /\ MvKeeps(input.fs, input.locked, input.path, input.to)
    /\ SymlinkReplaces(input.fs, input.locked, input.to)

\* Mkdir tells whether the path is there, below directories.
MkdirsTell == Called("fs") => MkdirTells(input.fs, input.locked, input.path)

\* OpenForWrite opens a file if its directories are there or can be made.
WritesOpen == Called("fs") => OpensWhenPossible(input.fs, input.locked, input.path)

\* ListAllFile finds the files with the suffix in the whole tree.
FilesListed == Called("fs") => ListsAll(input.fs, input.path, {"x"})

\* Each key of a command line has the value behind it.
ArgumentsParsed == Called("args") => ArgsParsed(input.argv)

\* A configuration value survives its text, but for empty strings and YAML.
ValuesSurvive == Called("lexical") => LexicalRoundTrip(input.kind, input.v)

\* Each variable is given its own node of a file.
NodesListed == Called("yaml") => MembersListed(input.root, input.paths)

\* The definition of a logger survives the way to its text and back.
DefinesSurvive == Called("define") => DefineSurvives(input.define)

\* A transfer of a fixed length moves all of it, in order, or says it did not.
StreamsFixed == Called("stream") => FixSize(input.length, input.lens)

\* The functions of ByteCodec, TextUtil, LogFormatter, Addresses, Env, ConfigYaml
\* and LogDefines give what their reference definitions say: what is encoded,
\* printed or split can be had back, and networks share the bits they should.  The
\* functions that go on after a step of theirs has failed, on files that cannot be
\* removed, moved, made or opened and on transfers that break off, leave what their
\* result says.
FunctionsRight ==
  /\ CodecRoundTrip /\ CodecOrder /\ VarintBounded
  /\ UrlRoundTrips /\ Trims /\ PathsSplit /\ PatternsKept /\ PatternsRefused
  /\ NetsOfV4 /\ NetsOfV6 /\ TextOfV6 /\ AddressOrder /\ HostsSplit
  /\ ArgumentsParsed /\ ValuesSurvive /\ NodesListed /\ DefinesSurvive
  /\ RemovesTell /\ MovesKeep /\ MkdirsTell /\ WritesOpen /\ FilesListed /\ StreamsFixed
==============================================================================
