------------------------------ MODULE VeilEngine ------------------------------
(***************************************************************************)
(* Files with veiled lines: tools/VeilEngine.cpp,                          *)
(* tools/SecretConfiguration.cpp and the commands veil, unveil and license *)
(* of tools/dbknife.cpp.  A file is a text or its lines.  The generator of *)
(* the salts is another one: salts[k] is the salt of the k-th line.        *)
(***************************************************************************)
EXTENDS CharRandom, Adaptation

CONSTANTS BufferSize,   \* of a line in a configuration: 512 in the code
          LineSize      \* of a line in a command: 2^16

Intro == <<35, Blank, 118, Colon>>            \* _introConfiguration, shortened
HostIs == <<104, 111, 115, 116, Assign>>      \* host=
Secret3Is == <<115, 101, 99, 114, 101, 116, 51, Assign>>
Application == <<97, 112, 112, 108, 105, 99, 97, 116, 105, 111, 110, Dot>>
User == <<117, 115, 101, 114, Dot>>
UnitTest == <<117, 110, 105, 116, 116, 101, 115, 116>>
HashBlank == <<35, Blank>>
Created == HashBlank \o <<100, 98>>           \* "# created by dbknife", shortened

SaltOf(salts, k) == salts[(k % Len(salts)) + 1]
Engine95 == NewCharRandom("ASCII95", 4)
ConfigurationEngine == SetSecrets(Engine95, << <<33>>, <<Dollar>>, <<Caret>> >>)

VeiledLine(line, salt) == Veil(Reset(ConfigurationEngine), line, BufferSize, salt)
UnveiledLines(lines) ==
  FoldLeft(LAMBDA clear, line : Append(clear, Unveil(Reset(ConfigurationEngine), line, BufferSize).text),
           <<>>, lines)

--------------------------------------------------------------------------------
\* buildConfiguration(), readConfiguration()

ConfigurationLines(host, name, value, secret3, additional) ==
  << Intro, HostIs \o host, Secret3Is \o secret3, Application \o name \o <<Assign>> \o value >> \o additional
BuildConfiguration(lines, salts) ==
  FlattenSeq([k \in DOMAIN lines |-> Append(VeiledLine(lines[k], SaltOf(salts, k)).text, LF)])

\* A missing application is reported, but rc stays TRUE.
Unread == [rc |-> FALSE, host |-> <<>>, secret3 |-> <<>>, secrets |-> <<>>]
Secrets(lines) ==
  LET Take(map, line) ==
        LET k == Found(line, <<Assign>>)
        IN IF k > Len(line) THEN map ELSE (Upto(line, k - 1) :> From(line, k + 1)) @@ map
  IN FoldLeft(Take, <<>>, lines)
Taken(lines) ==
  LET isHost == StartsWith(lines[2], HostIs, FALSE)
      isSecret3 == StartsWith(lines[3], Secret3Is, FALSE)
  IN [rc |-> lines[1] = Intro /\ isHost /\ isSecret3,
      host |-> IF isHost THEN From(lines[2], Len(HostIs) + 1) ELSE <<>>,
      secret3 |-> IF isSecret3 THEN From(lines[3], Len(Secret3Is) + 1) ELSE <<>>,
      secrets |-> Secrets(From(lines, 4))]
ReadConfigurationLines(lines) == IF Len(lines) < 3 THEN Unread ELSE Taken(UnveiledLines(lines))
ReadConfiguration(contents) == ReadConfigurationLines(SplitCString(contents, <<LF>>, -1))
ApplicationCode(configuration, application) ==
  ConfiguredString(configuration.secrets, Application \o application, <<>>)

Verify(configuration, name, code) ==
  \/ name = UnitTest
  \/ User \o name \in DOMAIN configuration.secrets /\ configuration.secrets[User \o name] = code

\* license(): the application is named with the word "application." in front,
\* which buildConfiguration() puts in front once more.
NoEntry == [problem |-> "exception"]
LicenseLines(host, parts, secret3, additional) ==
  [problem |-> "none", lines |-> ConfigurationLines(host, parts[1], parts[2], secret3, additional)]
License(host, secret3, arguments) ==
  LET first == SelectInSeq(arguments, LAMBDA s : StartsWith(s, Application, FALSE))
  IN IF first = 0 \/ \E argument \in ToSet(arguments) : ~({Assign, Dot} \subseteq ToSet(argument)) THEN NoEntry
     ELSE LicenseLines(host, SplitCString(arguments[first], <<Assign>>, 2), secret3, RemoveAt(arguments, first))

--------------------------------------------------------------------------------
\* SecretConfiguration: the lines of the file are veiled when it is read for
\* the first time. The engine's own configuration has no influence: reset()
\* sets the seeds of the default secrets.

VeiledText(text, salt) == VeilText(Reset(Engine95), text, salt).text
UnveiledText(text) == UnveilText(Reset(Engine95), text).text
UnveiledTexts(lines) == FoldLeft(LAMBDA clear, line : Append(clear, UnveiledText(line)), <<>>, lines)

\* A line is taken for a veiled one if it unveils to a comment.
IsVeiled(line) ==
  LET clear == UnveiledText(line)
  IN Len(line) - 4 = Len(clear) /\ clear # <<>> /\ clear[1] = 35
VeilLines(lines, salts) ==
  LET all == IF StartsWith(lines[1], HashBlank, FALSE) THEN lines ELSE <<Created>> \o lines
  IN FlattenSeq([k \in DOMAIN all |-> Append(VeiledText(all[k], SaltOf(salts, k)), LF)])
\* veil(): an older backup is removed, the file becomes the backup, is written
\* again, and the backup is removed. A fault in one of the first two steps ends
\* it; that the text is not written, or not all of it, is not noticed.
Gone == <<-1>>
Faults == {"none", "unlink", "rename", "open", "write"}
TextOnDisk(text, fault) ==
  CASE fault = "open" -> Gone [] fault = "write" -> Upto(text, Len(text) \div 2) [] OTHER -> text
VeilFile(files, text, fault) ==
  CASE fault = "unlink" /\ files.backup # Gone -> files
    [] fault = "rename" -> [files EXCEPT !.backup = Gone]
    [] OTHER -> [contents |-> TextOnDisk(text, fault),
                 backup |-> IF fault = "unlink" THEN files.contents ELSE Gone]

Populated(lines) == Populate(<<>>, JoinVector(lines, <<LF>>))
ReadLines(lines, files, salts, fault) ==
  CASE Len(lines) < 2 -> [map |-> <<>>, files |-> files]
    [] Len(lines) > 1 /\ IsVeiled(lines[1]) -> [map |-> Populated(UnveiledTexts(lines)), files |-> files]
    [] OTHER -> [map |-> Populated(lines), files |-> VeilFile(files, VeilLines(lines, salts), fault)]
ReadSecret(files, salts, fault) ==
  ReadLines(SplitCString(files.contents, <<LF>>, -1), files, salts, fault)

--------------------------------------------------------------------------------
\* _veilOrUnveil(): the file as fgets() delivers it, a line with its line feed
\* (which no class has) or as much of it as the buffer takes.
RECURSIVE Pieces(_)
Pieces(text) ==
  LET feed == Found(text, <<LF>>)
      n == IF feed < LineSize THEN feed ELSE LineSize - 1
  IN IF text = <<>> THEN <<>> ELSE <<Upto(text, n)>> \o Pieces(From(text, n + 1))
Refused == [rc |-> 9, text |-> <<>>]
VeiledPieces(pieces, salts) ==
  FlattenSeq([k \in DOMAIN pieces |-> Veil(Reset(Engine95), pieces[k], LineSize + 5, SaltOf(salts, k)).text])
VeilPieces(pieces, salts) ==
  IF pieces # <<>> /\ ~StartsWith(pieces[1], HashBlank, FALSE) THEN Refused
  ELSE [rc |-> 0, text |-> VeiledPieces(pieces, salts)]
UnveiledPieces(pieces) ==
  FoldLeft(LAMBDA all, piece : Append(all, Unveil(Reset(Engine95), piece, LineSize + 5).text), <<>>, pieces)
UnveilPieces(pieces, clear) ==
  IF pieces # <<>> /\ (Len(pieces[1]) < 6 \/ ~StartsWith(clear[1], HashBlank, FALSE)) THEN Refused
  ELSE [rc |-> 0, text |-> FlattenSeq(clear)]
UnveilLines(pieces) == UnveilPieces(pieces, UnveiledPieces(pieces))

\* Where the text goes.  The output "~" selects stdin, which takes nothing; in
\* place input~ replaces the input unless the command was refused.  Nobody looks
\* whether it was written: kept is how many characters there was room for.
Targets == {"in place", "file", "~"}
Command(done, text, target, kept) ==
  LET written == IF target = "~" THEN <<>> ELSE Upto(done.text, kept)
  IN [rc |-> done.rc, output |-> written,
      input |-> IF target = "in place" /\ done.rc = 0 THEN written ELSE text]
VeilCommand(text, salts, target, kept) == Command(VeilPieces(Pieces(text), salts), text, target, kept)
UnveilCommand(text, target, kept) == Command(UnveilLines(Pieces(text)), text, target, kept)

--------------------------------------------------------------------------------
\* The salts for which the sums of the seeds are defined.
SaltsFor(engine, salts) == \A k \in DOMAIN salts : ~IsLeast(engine, salts[k])

\* Reference: the configuration that was built is read; users are verified by
\* their codes. Entries that come twice keep the last value.
KeyOf(entry) == Upto(entry, Found(entry, <<Assign>>) - 1)
ValueOf(entry) == From(entry, Found(entry, <<Assign>>) + 1)
IsLastEntry(entries, k) == \A j \in k + 1..Len(entries) : KeyOf(entries[j]) # KeyOf(entries[k])
Holds(secrets, key, value) == key \in DOMAIN secrets /\ secrets[key] = value
VerifiedBy(read, user, code) == Verify(read, user, code) /\ ~Verify(read, user, Append(code, Assign))
HasEntry(read, key, value) ==
  /\ Holds(read.secrets, key, value)
  /\ StartsWith(key, User, FALSE) => VerifiedBy(read, From(key, Len(User) + 1), value)
EntriesRead(read, entries) ==
  \A k \in DOMAIN entries : IsLastEntry(entries, k) => HasEntry(read, KeyOf(entries[k]), ValueOf(entries[k]))
IsRead(read, host, secret3) == read.rc /\ read.host = host /\ read.secret3 = secret3
BuiltIsRead(read, host, name, value, secret3, additional) ==
  /\ IsRead(read, host, secret3)
  /\ EntriesRead(read, <<Application \o name \o <<Assign>> \o value>> \o additional)
  /\ ApplicationCode(read, name) = value \/ \E k \in DOMAIN additional : KeyOf(additional[k]) = Application \o name
Reading(lines, salts) == ReadConfiguration(BuildConfiguration(lines, salts))
ConfigurationAgrees(host, name, value, secret3, additional, salts) ==
  SaltsFor(ConfigurationEngine, salts) =>
    BuiltIsRead(Reading(ConfigurationLines(host, name, value, secret3, additional), salts),
                host, name, value, secret3, additional)
\* The licence keeps host, secret and users; its first application is found
\* under the doubled name only.
LicenseIsRead(read, host, secret3, arguments) ==
  /\ IsRead(read, host, secret3)
  /\ \A k \in DOMAIN arguments :
       LET key == KeyOf(arguments[k])
       IN \/ Holds(read.secrets, key, ValueOf(arguments[k]))
          \/ ~IsLastEntry(arguments, k)
          \/ Holds(read.secrets, Application \o key, ValueOf(arguments[k]))
LicenseAgreesOf(license, host, secret3, arguments, salts) ==
  license # NoEntry => LicenseIsRead(Reading(license.lines, salts), host, secret3, arguments)
LicenseAgrees(host, secret3, arguments, salts) ==
  SaltsFor(ConfigurationEngine, salts) =>
    LicenseAgreesOf(License(host, secret3, arguments), host, secret3, arguments, salts)
\* The first reading of a configuration veils its file and leaves no clear copy,
\* the next ones keep it; all find the same values, also if the backup could not
\* be made or removed - unless the first line in clear unveils to a '#'. A text
\* that was not written is lost with the backup (SecretConfiguration.cpp:75).
ReadTwice(clear, line1, first, second, fault) ==
  /\ first.map = Populate(<<>>, clear)
  /\ fault \in {"none", "unlink", "rename"} => second.map = first.map
  /\ fault = "none" => /\ second.files = first.files
                       /\ first.files.backup = Gone
                       /\ ~StartsWith(first.files.contents, Append(line1, LF), FALSE)
ReadsAgree(clear, line1, first, salts, fault) ==
  ReadTwice(clear, line1, first, ReadSecret(first.files, salts, "none"), fault)
SecretAgreesOf(clear, line1, salts) ==
  \/ IsVeiled(line1)
  \/ \A fault \in Faults :
       \A backup \in IF fault = "none" THEN {Gone, line1} ELSE IF fault = "unlink" THEN {line1} ELSE {Gone} :
         ReadsAgree(clear, line1, ReadSecret([contents |-> clear, backup |-> backup], salts, fault), salts, fault)
SecretAgrees(lines, salts) ==
  SaltsFor(Engine95, salts) /\ lines # <<>> =>
    SecretAgreesOf(FlattenSeq([k \in DOMAIN lines |-> Append(lines[k], LF)]), lines[1], salts)
\* The command unveil undoes the command veil, as long as the lines fit and what
\* is written arrives; a file that is not replaced is kept.  (Nothing is said of
\* the output "~": dbknife.cpp:464 promises it to stdout.)
Undone(veiled, text, target, kept) ==
  /\ veiled.rc # 0 \/ target # "in place" => veiled.input = text
  /\ veiled.rc = 0 /\ target # "~" =>
       UnveilCommand(veiled.output, target, kept)
         = [rc |-> 0, output |-> text, input |-> IF target = "in place" THEN text ELSE veiled.output]
Room(text) == 8 * (Len(text) + 1)   \* more than every veiled text takes
UndoneAt(text, salts, target) ==
  Undone(VeilCommand(text, salts, target, Room(text)), text, target, Room(text))
CommandsAgree(text, salts) ==
  /\ SaltsFor(Engine95, salts)
  /\ \A piece \in ToSet(Pieces(text)) : Len(piece) + 4 < LineSize
  => \A target \in Targets : UndoneAt(text, salts, target)
================================================================================
