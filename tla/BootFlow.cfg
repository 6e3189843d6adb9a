SPECIFICATION Spec
CONSTANTS
  Payload <- MCPayload
  Size <- MCSize
  Block = 2
  Secret <- MCSecret
  Content <- MCContent
  Header = 3
  Chunk = 4
  Lines = {"q", "b", "right", "wrong"}
  Quit = "q"
  Back = "b"
  Volumes <- MCVolumes
  None = None
INVARIANTS
  TypeOK
  ChecksTheHeader
  ImageIsThePayload
  HintsDescribeTheImage
  StartsOnlyCanaries
