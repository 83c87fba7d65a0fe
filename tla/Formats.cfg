SPECIFICATION MCSpec
CONSTANTS
  BodyLens <- MCBodyLens
  BlobLens <- MCBlobLens
  Claims <- MCClaims
  KeyLen = 1
  Hash <- MCHash
  Drawn <- MCDrawn
  Tokens <- MCTokens
  MaxEdits = 2
  Keys <- MCNumbers
  MaxDerivations = 2
INVARIANTS TypeOK SmallestBucket SealedLetterOpens ReaderContained ClaimIsCheckedFirst
INVARIANTS TornNeverParses EditsAreSeen RootsAgree
