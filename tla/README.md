# A TLA+ model of Sealed

Sealed (`../src`) is a Rust program for encrypted letters. It keeps an identity and
pinned contacts in a state directory, seals a letter into a blob that any transport may
carry, and opens blobs. It has no server, no lock and no database: several copies of the
program meet in the file system, and letters meet the transport. This directory holds
TLA+ modules of those parts, the configurations that check them with TLC, and proofs
checked by TLAPS.

Paths of source files below are relative to `src/src/` unless they say otherwise.

## 1. The system

| Component | State it keeps | Operations | Hard behaviour | Correct when |
|---|---|---|---|---|
| Identity store (`storage.rs`, `identity.rs`) | `identity/identity.pub`, `identity/identity.key.enc`, the unlock key file elsewhere, three directories | `initialize`, `load_identity`, `export_profile` | several processes, no lock; a call fails or a process dies between any two calls; the error path removes a file | an identity once reported stays loadable, there is one identity, nobody destroys another's files, somebody wins a race |
| Contact store (`storage.rs`, `contact.rs`) | one `NAME.contact` per pinned profile | `trust_profile`, `contact`, `all_contacts` | look-then-create race, reading files being written, a directory that changes while it is listed | a pin is immutable, answers stay true, a listing does not miss a pin |
| Letters (`message.rs`, `crypto.rs`) | none | `seal`, `open` with the verdict `PINNED`, `MISMATCH`, `UNKNOWN` | replay, damage, re-encryption to somebody else, contacts that share a key, contacts pinned meanwhile | a pinned verdict means that this sender sealed this letter for this recipient; an exact pin is never shown as a possible MITM, nor a shared key as unknown |
| Letter files (`storage.rs`, `cli.rs`) | files at paths the user names | `write_new_private`, `read_blob`, `consume_blob` | path reused between read and delete, failing output, torn files | nothing is overwritten; nothing is deleted before output succeeded |
| Padding (`protocol.rs`) | none | `padded_blob_len`, `valid_blob_len` | boundaries of buckets | smallest power of two in range that fits, nothing underflows |
| Inner format (`message.rs`, `format.rs`) | reader position | `serialize_internal`, `parse_internal`, `Reader` | lengths that a blob claims | what was sealed opens, no read beyond the plaintext |
| Key files (`identity.rs`, `format.rs`) | none | `PublicProfile::encode/parse`, unlock key, private identity | files cut short, edits, line ends, case of digits | only the bytes that were written are accepted |
| Contact root, steganography (`crypto.rs`, `stego.rs`) | none | `derive_contact_root`, `derive_stego_key`; two traits without code | order of two profiles that may share a key | both sides derive the same root, nobody else does |
| Menu, picker, terminal (`cli.rs`) | mode of the terminal, selected entry | `interactive`, `choose_from_list`, `read_picker_key`, `RawTerminal`, prompts | leaving raw mode on every path, type-ahead, Escape, a terminal that goes away | the mode is restored, the selection is what the keys say, the program ends with its terminal |
| Options (`cli.rs`) | none | `run`, `parse_options`, `parse_open_options`, `resolve_unlock_path` | repeated or missing values, values that look like options | each command line is read as its grammar says |
| Entropy (`entropy.rs`) | none | `random_array`, `fill_random` | may fail | fresh bytes or an error |
| Errors, build, vendored crates | none | - | - | out of scope |

How they interact: the commands of `cli.rs` call the stores and `message.rs` one after
the other. `open` needs `load_identity`, then `all_contacts`, then `read_blob`, then
`message::open`, then standard output, then `consume_blob`; `seal` needs `contact` (the
wizard: `all_contacts`), `load_identity`, `message::seal` and `write_new_private` or
standard output. Between any two of these, other copies of the program and the transport
act. `PROJECT.json` lists what is hard to test in this, each at its line, under
`hazards`.

## 2. The modules

| Module | What it is |
|---|---|
| `IdentityVault` | abstract: one identity, established once, served to callers |
| `IdentityStore` | `initialize`, `load_identity`, `export_profile`, directories and their modes, call by call |
| `PowerLoss` | extends `IdentityStore` by a machine that loses power |
| `MCIdentityStore`, `MCPowerLoss` | instances and symmetry for TLC |
| `IdentityStoreProofs`, `PowerLossProofs` | theorems about both |
| `PinStore` | abstract: immutable pins; whatever is told about them is true |
| `ContactStore`, `ContactStoreProofs` | `trust_profile`, `contact`, `all_contacts`, call by call; theorems |
| `Post` | abstract: a home is shown only what was sealed for it |
| `Letters`, `LettersProofs` | `seal` and `open` with everything they call, and the transport; theorems |
| `MCLetters` | two homes with their profiles and one profile that mixes their keys |
| `Sizes`, `SizesProofs` | the lengths of a letter, from `padded_blob_len` to `Reader`; theorems |
| `KeyFiles` | the text of a profile and of an unlock key, written, cut short and edited |
| `ContactRoots` | `derive_contact_root` from both sides |
| `FormatsProofs` | theorems about `KeyFiles` and `ContactRoots` |
| `MCFormats` | `Sizes`, `KeyFiles` and `ContactRoots` in one instance |
| `Menu`, `MenuProofs` | the interactive program and its terminal; theorems |
| `Options` | the words of a command line |
| `Cli` | the program from its start: the menu or a command |
| `CliProofs` | theorems about `Options` and `Cli` |
| `MCCli` | its command lines for TLC |

Conventions: one action is one system call with the code up to the next one; a process
is a record `proc[p]` of a program counter and the local variables that matter; a
variable marked *history* is written by the model and read by properties only. An
operator whose comment begins "A slip of" is not part of the program: it is the
definition it names with a plausible mistake in it, kept to show that the properties
notice (section 5). `PROJECT.json` maps each definition to its lines.

### IdentityStore

`file` maps the three files to the random draw their content comes from, or to `Absent`,
or `Torn` (any strict prefix, the empty file included). `initialize` is `BeginInit`,
`Check` (three `reject_existing`), `SeeDir`, `MakeDir` and `LockDir` (three times
`create_private_directory`), `Draw`, then `CreateNew`, `WriteAll`, `Settle` for the
unlock key, the profile and the encrypted identity, in this order; the last `Settle` is
`Issue`. `Fail` is the error path: everything returns at once, except that a failure to
write the encrypted identity first removes the profile (`Rollback`). `load_identity` is
`BeginLoad`, `ReadKey`, `ReadEnc`, `ReadPub`; `export_profile` is `Export`. `SystemError`
makes the next call fail, `Crash` stops the process; after a `WriteAll` that fails the
file stays torn, after a sync or chmod that fails it is complete.

`dirs` are the directories that exist and `private` those whose mode has been set. Three
commands make directories: `initialize` all of them, an import of a contact the last one
(`BeginImport`; the rest of the import is in `ContactStore`), and `wizard_init` the
parents of a path inside the state directory, with default permissions, before
`initialize` refuses the path (`WizardInside`, `Refuse`).

### PowerLoss

The actions of `IdentityStore`, and `PowerCut`. What is on the disk is `synced`, the
contents of files whose `sync_all` has returned. No directory is ever synced, so every
entry made or removed since the start may be there or not, each on its own: a removed
profile may be back, an issued file may be gone. A file that was not synced may be gone,
torn or whole. After the cut no command runs, and the histories start again, so that
`IssuedLoadable` and `OneIdentity` speak about what the program reports on top of the
remains.

### ContactStore

`file` maps each contact name to a profile, `Absent` or `Torn`. Names are numbers, in
the order in which `all_contacts` sorts their files. `trust_profile` is `BeginTrust`,
`SeeDir`/`MakeDir`, `Look`, then `Compare` or `CreateNew`, `WriteAll`, `Settle`;
`all_contacts` is `BeginList`, `OpenDir`, `ReadDir`, `ReadNext`, `ListDone`. A listing
returns all that was in the directory when it was opened and any part of what is created
before it ends, which is what `readdir` promises. `BlindList` is `Path::exists` answering
false because its own call failed. A process keeps its last command until it starts the
next, so that properties can speak about what it told its user.

### Letters

A home is a state directory. What it guarantees is taken from the two stores, as proved
there: one identity (`Own[h]`), immutable pins (`pins[h]`), a listing that holds what was
pinned when it began (`BeginOpen`, `ListContacts`), which the history `known` records; the
listing of a directory that could not be looked at (`BlindList`) is in `ContactStore` only.
`BeginSeal` is `command_seal` up to
the sealed blob: cryptography is symbolic, a signature is the pair of its key and the
statement it is on, a blob names the agreement key that opens it. `ReadBlob` is
`read_blob` with `message::open`: `Opens` checks decryption, then the recipient it is
bound to, then the signature, and `SenderTrust` is the verdict. `Show` prints and flushes;
`Consume` removes whatever is at the path by then. `Fault` is a failing call or a kill
at any point.

The transport is no part of the program. `Take` copies a letter file, `Deliver` puts
anything seen before, something damaged or nothing at any path at any time, and
`Reencrypt` is another program that encrypts a letter it could open once more, for any
home and with any other statement around the old signature, as the unit test of
`message.rs` does (lines 298-342). `Offered[h]` is the set of profiles that people import at
home `h`, their own and mixtures included.

### Sizes, KeyFiles, ContactRoots

`Sizes` keeps the real constants of `protocol.rs` and follows one letter: the loop of
`padded_blob_len` (`Double`, `Chosen`), the two subtractions of `seal` (`PlaintextLen`,
`PaddingLen`), `Serialize`, and then the reader field by field (`Take`) with the check of
the claimed length (`ClaimFits`). Lengths are integers, so that an underflow of `usize`
shows as a negative number. A blob is what `seal` made, or what another program has
encrypted for this home with any length and any claim.

`KeyFiles` has files as sequences of tokens: a header or a label is one token, each
hexadecimal digit, line end and stray character another. `LineAt` is `str::lines`, which
takes LF and CR LF and does not mind whether the last line has an end; `Nibbles` accepts
both cases, as `hex_nibble` does. `Write` adds to the file what `write_all` has got to
the disk, and `Edit` is any other program inserting, removing or replacing a token. A key
is any sequence of `KeyLen` digits, and `Hash` gives a fingerprint for each two of them.

`ContactRoots` derives roots for any secrets, local profile and peer; `Ordered` is the
comparison of the two key materials. The shared point of two key pairs is the set of the
two, and a peer key of low order has none.

### Menu

One action is one read of the terminal or one `stty`. `typed` is what the terminal holds
for the program, typed at any time; each byte carries the way its key points, for the
history `aim`. `Enter` and `SetRaw` are `RawTerminal::enter`, `ReadKey` and
`ReadSequence` the key reader, `Drop` the destructor with `restore_stty`, `Number` the
list without arrow keys. A list is the menu or the recipients of `wizard_seal`. Of the
wizards the model keeps which lines they ask for (`Questions`, `Ask`); what they do to
files is in the other modules. `Press`, `Hangup` and `Kill` are the user, the terminal
and the operating system; Ctrl-C is a byte in raw mode and a signal otherwise. A
`BufReader` that is dropped takes the rest of what it has read with it (`ReadLine`, in raw
mode, where a read is not limited to a line).

### Options and Cli

A word is an option, another word with a dash, a plain word, or not UTF-8. `Filter` and
`ParseNext` are one round each of the two loops, `Parsed` counts the operands, `Resolve`
finds the name or the unlock key. `FollowsGrammar` compares the two loops with a grammar
that gives each word its role from the role of the word before. `Cli` starts the menu or
one of the commands.

## 3. The runs

`pass` runs check their properties over all reachable states; `violation` runs exhibit a
disagreement between the code and a line of its documentation or output (section 6).

| Run | Instance | States | Shows |
|---|---|---|---|
| `identity_race` | 3 processes, 3 unlock paths (one inside the state directory), 2 draws, symmetry | 771,627 | `TypeOK`, `IssuedLoadable`, `OneIdentity`, `ExportedHolds`, `DirsPrivate`, `CompleteFilesKept` |
| `identity_fair` | 2 processes, 2 paths, 2 draws, fairness | 257,166 | `SomeInitSucceeds` (liveness), `ImplementsVault` (refinement) |
| `power` | 2 processes, 2 paths, 2 draws, 1 power loss, symmetry | 129,914 | `IssuedLoadable`, `OneIdentity`, `IssuedKeysWholeOrGone` |
| `contacts` | 2 processes, 2 names, 2 profiles, fairness | 68,096 | `TypeOK`, `AnswersStayTrue`, `NoPinMissed`, `DamageNeedsFault`, `ContendedNameIsPinned` (liveness), `ImplementsPins` (refinement) |
| `letters` | 1 process, 2 homes, 3 profiles, 2 contact names, 1 letter, 1 re-encryption under any of 4 statements | 636,316 | `TypeOK`, `PinnedIsGenuine`, `VerdictIsWarranted`, `ImplementsPost` (refinement) |
| `letters_files` | 2 processes, 1 path, 2 letters, symmetry | 498,682 | `FilesRespected` |
| `formats` | real sizes around every boundary; keys of 1 digit, 2 edits; 2 keys, 2 derivations | 73,633 | `TypeOK`, `SmallestBucket`, `SealedLetterOpens`, `ReaderContained`, `ClaimIsCheckedFirst`, `TornNeverParses`, `EditsAreSeen`, `RootsAgree` |
| `cli` | 7 keys, 3 bytes typed ahead, up to 2 recipients; command lines of up to 4 words out of 8, fairness | 483,090 | `TypeOK`, `TerminalRestored`, `SelectionFollowsKeys`, `KeepHonoured`, `FollowsGrammar`, `ThreeCancelsEnd`, `HangupEnds` (liveness) |
| `identity_summary` | as `identity_fair` | - | `SummaryTells` violated |
| `contacts_mismatch` | as `contacts` | - | `DifferentKeyIsMismatch` violated |
| `letters_deleted` | as `letters_files` | - | `DeletedWasShown` violated |
| `cancel` | `Menu` alone, 4 keys | - | `CtrlCCancels` violated |

Deadlock is checked in every run but `cli` and `cancel`, where the program ends: in the
stores a process that has returned can always start another command.

Why the bounds are enough. *Identity*: the hazards are a race of two initializations, of
which one rolls back while a third process reads, imports or initializes again; three
processes are the least that has all of it, and two draws are enough for two identities
to mix. Two unlock paths allow two initializations past the unlock key check. In
`identity_fair` two draws let both of two racing processes come to the files. *Power*:
one cut separates the two draws, of which either or both were under way; the proof has
any number. *Contacts*: a pin is contended by two processes with two
different profiles, and a listing needs a second name to be in the middle. *Letters*:
the cryptographic properties are about one letter meeting the wrong home, statement or
pin, so one letter between two homes with a third profile, which has the identity key of
one and the agreement key of the other, gives every wrong combination; a second name
puts a sharing and an exact pin side by side; a second process and letter make a path
change hands during an open. *Formats*: the sizes are those of the program; lengths are
taken at each bucket's limit and one beside it. A key of one digit has all that a file
can be told apart by, as the parser treats the digits alike, and two edits can change a
key together with its fingerprint. *Cli*: three bytes are an arrow key, or an Escape and
the two bytes it swallows; two recipients make the list wrap; four words are two options
with values, one of them repeated, or an option without its value beside two operands.
The proofs remove the bounds for every safety property (section 4).

Bounds that stand in guards: `MaxForeign` (blobs of other programs), `MaxCuts` (power
losses), `MaxEdits` (edits of a file), `MaxDerivations` (roots), `MaxTyped` (bytes the
terminal keeps), `MaxContacts` (recipients in the list).

Fairness: the stores' `FairSpec` assumes weak fairness of `Step(p)`, the steps a command
takes by itself once it is started. The operating system runs started processes, and no
step of these commands waits for anything. `CliSpec` assumes weak fairness of `Program`,
the steps of the menu that are not waiting for input: a read that finds nothing typed is
not enabled until the terminal is gone. Nothing is assumed of users (no command need be
started, no key pressed) or of failures (none need occur). `SomeInitSucceeds` has two
parts: racing initializations may all lose to an import or a refused wizard that makes a
directory between the look and `create_dir`, but no longer once all directories exist.
`Letters` has no liveness property: nothing obliges a transport to deliver.

## 4. The proofs

Everything here holds for any number of processes, paths, draws, names, profiles, homes,
letters, power losses, lengths, claims, keys and their digits, edits, contacts and words,
and every safety property that a passing run checks is proved. The only assumptions are
those the modules name: sentinels (`Absent`, `Torn`, `NoPin`, `Damaged`) are not values of
the data, names, lengths, keys and bounds are natural numbers, unlock paths differ from the
two files of the identity and from the directories, `Own` gives profiles and `Offered` sets
of them, a letter file is not standard output, the menu has the eight kinds of key that
its reader tells apart, a fingerprint has as many digits as a key, and the words of a
command line are words.

| Theorem (`IdentityStoreProofs`) | Statement |
|---|---|
| `TypeCorrect` | `Spec => []TypeOK` |
| `OwnershipInvariant` | `Spec => []IInv` |
| `IssuedStaysLoadable` | `Spec => []IssuedLoadable` |
| `OneIdentityOnly` | `Spec => []OneIdentity` |
| `ExportsHold` | `Spec => []ExportedHolds` |
| `DirectoriesArePrivate` | `Spec => []DirsPrivate` |
| `CompleteFilesAreKept` | `Spec => CompleteFilesKept` |
| `VaultImplemented` | `Spec => ImplementsVault` |

None of these invariants is inductive: they do not say why the process that rolls back
can only remove a profile of its own. `IInv` adds *ownership*. A process owns its unlock
key file from the `create_new` that made it, and the profile from the `create_new` that
made that, and with it the sole right to write the encrypted identity. `create_new`
gives a file one owner, because an existing file is never created again; `OwnFiles` says
what an owned file holds; `OneOwner` says that no profile is owned any more when an
identity is issued, so a late `Rollback` finds none to remove. Before the first fault
(`NoFault`) the owner meets no encrypted identity of another, so no rollback happens,
which gives `ExportedHolds`. For `DirsPrivate` the invariant says which directories an
`initialize` has behind it at each directory, and that modes are never taken back.

| Theorem (`PowerLossProofs`) | Statement |
|---|---|
| `Invariant` | `PowerSpec => []PowerInv` |
| `IssuedStaysLoadableAcrossCuts` | `PowerSpec => []IssuedLoadable` |
| `OneIdentityAcrossCuts` | `PowerSpec => []OneIdentity` |
| `KeysWholeOrGone` | `PowerSpec => IssuedKeysWholeOrGone` |

`IInv` of `IdentityStore` asks nothing of the files while no command runs, so a cut
preserves it, whatever it leaves. `PowerInv` adds that what an `initialize` has behind it
is synced, and that only a profile can come back under a name that was removed. It may
come back beside the keys of an identity that another draw has issued since, which is why
`IssuedKeysWholeOrGone` says less of the profile than of the keys: it is complete, and what
keeps a load from using it is the comparison in `ReadPub`.

| Theorem (`ContactStoreProofs`) | Statement |
|---|---|
| `TypeCorrect` | `Spec => []TypeOK` |
| `AnswersRemainTrue` | `Spec => []AnswersStayTrue` |
| `ListingIsComplete` | `Spec => []NoPinMissed` |
| `DamageIsAFault` | `Spec => []DamageNeedsFault` |
| `PinsImplemented` | `Spec => ImplementsPins` |

The argument is that a contact file only ever goes from absent to torn to complete
(`FilesGrow`): a torn file has one writer (`WritersOK`), a complete file is final, so
what was read from it stays true; `ViewsOK` says that everything pinned when a listing
began is in its view or still to be read.

| Theorem (`LettersProofs`) | Statement |
|---|---|
| `TypeCorrect` | `Spec => []TypeOK` |
| `Invariant` | `Spec => []IInv` |
| `PinnedGenuine` | `Spec => []PinnedIsGenuine` |
| `VerdictsAreWarranted` | `Spec => []VerdictIsWarranted` |
| `FilesAreRespected` | `Spec => FilesRespected` |
| `PostImplemented` | `Spec => ImplementsPost` |

`IInv` says that every blob anywhere (files, the transport, other programs, commands) is
*genuine*, that is its signature is on a statement that `seal` signed, and what each
program counter says about the record of its process: the contacts listed are pinned, and
hold those that were pinned when the listing began; the verdict is the one of those
contacts; the letter was put out, and was not to be kept, before the file is deleted.
`TrustMeans` is the lemma about `SenderTrust` alone, what each verdict says of the contacts
in view; as these lie between those pinned before and those pinned now,
`VerdictsAreWarranted` follows. It does not say that a verdict only gets better: importing
a contact that shares a key with a sender turns UNKNOWN into the alarm of a MISMATCH, as it
should, and an import of the sender's own profile turns either into PINNED. `FirstIn` shows that `First`, a `CHOOSE`, returns a member, from
the well-foundedness of the naturals.

| Theorem (`SizesProofs`) | Statement |
|---|---|
| `Invariant` | `Spec => []IInv` |
| `NoUnderflow` | `Spec => []TypeOK` |
| `SmallestBucketChosen` | `Spec => []SmallestBucket` |
| `RoundTrip` | `Spec => []SealedLetterOpens` |
| `ReaderStaysInside` | `Spec => []ReaderContained` |
| `ClaimsAreCheckedFirst` | `Spec => []ClaimIsCheckedFirst` |

The invariant of the loop is that the bucket before was too small; that of the reader is
where each field starts, and that the accepted claim leaves room for the signature.

| Theorem (`FormatsProofs`) | Statement |
|---|---|
| `TornFilesNeverParse` | `FileSpec => []TornNeverParses` |
| `EveryEditIsSeen` | `FileSpec => []EditsAreSeen` |
| `ContactsAgree` | `RootsSpec => []RootsAgree` |

The invariant `FileInv` is that `whole` is what one of the two encoders makes of `made`,
and that the file holds a beginning of it until somebody edits it. The two theorems then
rest on what the parsers do to any sequence of tokens. `NthLineEnd` finds the n-th line of
a text whose line ends are known; `OneMoreLine` adds a line to such a text, so that
`LinesAreBack` reads back each line of an encoding; with `HexRoundTrip`, `ProfileIsRead`
and `UnlockIsRead` show that what was encoded is parsed. In the other direction
(`ParsedIsEncoded`) the comparison with the canonical form makes the text the encoding of
what was read from it. A file cut short is no encoding: the encodings of a profile have
all the same length, those of an unlock key too, and the first token tells the two apart
(`EncodedLengths`). This direction needs nothing about lines or digits, which says how much
the parsers owe to that one comparison.

`ContactsAgree` rests on `OrderIsCommon`: the comparison is a total order of profiles, so
the ordered pair depends on the two profiles and not on the side.

| Theorem (`MenuProofs`) | Statement |
|---|---|
| `TypeCorrect` | `Spec => []TypeOK` |
| `TerminalIsRestored` | `Spec => []TerminalRestored` |
| `SelectionIsFollowed` | `Spec => []SelectionFollowsKeys` |

`TerminalIsRestored` needs that the mode saved in a picker is the cooked one, which holds
as no picker opens while another lasts. `SelectionIsFollowed` needs that the key reader
is never out of step with the keyboard: `Followed` says that, until an Escape is pressed
alone, what the terminal holds is `Intact`, a sequence of whole keys of which only the
first may already have lost its Escape, and that the selection is where the keys read so
far have moved `aim`. `RestIntact`, `JoinIntact` and `KeysIntact` are the lemmas
for reading one byte, for typing behind what is there and for one key.

| Theorem (`CliProofs`) | Statement |
|---|---|
| `KeepIsHonoured` | `LineSpec => []KeepHonoured` |
| `GrammarIsFollowed` | `LineSpec => []FollowsGrammar` |
| `CliIsMenu` | `CliSpec => Spec` |
| `CliIsCommand` | `CliSpec => LineSpec` |
| `CliIsSafe` | `CliSpec => []` of the five invariants of the menu and of the command line |

`KeepIsHonoured` needs that the first loop has seen `--keep` exactly if it is among the
words behind it, and that the second loop never meets it. For `GrammarIsFollowed` the
invariant `ReadSoFar` says of the words behind the index what the grammar says of all:
none is out of place, each option has the value after its last place or none, the
operands are the ones collected. One lemma each takes it past a word of each role. The
other half of the equivalence, that a refused line is not well formed, is that the word
that stops the loop keeps its role whatever follows, and that two places of operands
remain two.

The program is the menu or a command: each step of `CliSpec` is a step of one
specification and a stuttering step of the other (`NextCli`), so it implements both, and
whatever is proved of either holds of the program as it is started.

The grammar is a recursive function, written with `CHOOSE` as every such definition is,
and nothing may be said about it before there is a function that satisfies its equation.
The library's theorems for this, and for induction, have an operator as a parameter, which
the provers cannot instantiate. `RolesRule` proves the equation without them: of the
positions up to which no function satisfies it there would be a least (`Least`, from the
well-foundedness of the naturals), and the function for the position before can be
extended by one value. `Least` is also what gives `CHOOSE` its meaning for the last place
of an option.

Only model-checked: the liveness properties `SomeInitSucceeds`, `ContendedNameIsPinned`,
`ThreeCancelsEnd` and `HangupEnds`, as liveness under fairness and `ENABLED` are out of the
prover's reach, and the four disagreements of section 6, which are counterexamples. No
module has a recursive operator.

## 5. What the properties are sensitive to

For every property of a passing run there is a slip of the program that breaks it on the
same instance (`mutants` in `PROJECT.json`): opening files with truncation instead of
`create_new`, removing the profile on the wrong error path, accepting a prefix, dropping
a comparison, calling `write` once instead of `write_all`, ending a listing at a damaged
file, swapping the two searches of `message::open`, not comparing the recipient, checking
a signature without its statement, ignoring an error of standard output, taking a
directory that exists as it is, syncing the last file only, forgetting the outer layer in
a length, comparing a claim with the limit but not the rest, or the reverse, leaving out
the canonical form, ordering profiles by one key, restoring the terminal at the end of the
program only, not wrapping, going on after the end of input, looking for `--keep` in the last
place only, refusing a value that looks like an option.

## 6. Where code and text disagree

* `identity_summary`: the menu prints "Identity ready" (`cli.rs:103`) if it can read the
  profile, and "No identity yet - start with option 1" (`cli.rs:106`) if it cannot. When
  the sync of `identity.pub` fails after the bytes are written, `initialize` returns and
  the profile stays without an encrypted identity: the menu says ready, no unlock key opens
  anything. When the write itself fails halfway, the menu recommends option 1, which
  answers "identity already exists" for good.
* `cancel`: the picker says "Ctrl-C cancels" (`cli.rs:343`). After an Escape the key reader
  waits for two more bytes and takes them for the rest of an arrow key (`cli.rs:582-588`),
  so a Ctrl-C among them is lost. Three in a row do end the list (`ThreeCancelsEnd`).
* `contacts_mismatch`: two imports of different profiles under one name pass the look
  together. The later one ends in a file error from `create_new`, not in the "hard
  IDENTITY MISMATCH" of `docs/THREAT_MODEL.md:23`. The pin itself is safe.
* `letters_deleted`: while a letter is on its way to standard output the transport puts
  another one at the path. `consume_blob` deletes that one, which nobody has seen
  (`README.md:84`: "after successful output"). The shortest run has 13 states.

## 7. What is not modelled

* Power loss outside the identity store: contact files and letters are written by the same
  `write_new_private`, and `ContactStore` and `Letters` have crashes only. In `PowerLoss` the
  mode of a directory survives with the directory.
* Other names for the same file: links, `..`, case-insensitive systems. The check that
  the unlock key is outside the state directory compares path components
  (`storage.rs:49`); `InsideState` is the set it recognises.
* Modes of files (they are created with theirs), file types other than regular files, and
  files with foreign names in the contacts directory. Each makes a call fail, which
  `SystemError` and `Fault` cover. In `ContactStore` a directory is made ready by one step
  after the look; its mode is in `IdentityStore`.
* The mathematics of the cryptography, key erasure and timing. Ed25519, X25519,
  HKDF and XChaCha20-Poly1305 are vendored; the model takes them to be ideal.
* Standard output that fails after a part has been printed: the letter then counts as
  not shown, and its file is kept.
* Wording and layout (banner, colours, formatted fingerprints, error texts), the expansion
  of `~`, exit codes, and builds for systems without `stty`.
* `entropy.rs` beyond fresh bytes or an error: `root_seed` has no caller. `stego.rs` declares
  two traits that nothing implements.

## 8. Plan

Done: both stores, the identity store under power loss, letters with their files, the
formats and sizes, the menu, the command line, and the theorems of section 4.

1. `SealedHome`: one home composed of `IdentityStore` and `ContactStore` and the commands
   above them, to show that what `Letters` takes from the two stores is what they give.
2. Power loss for contact files, where a pin that was reported may be gone and another may
   be put in its place.
