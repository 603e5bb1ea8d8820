SPECIFICATION TextureSpec
CONSTANTS
  Textures = {"texture"}
  Pages = {"page", "alias"}
  VerifyEvery = 3
  MissLimit = 1
INVARIANT HashNamesTheImage
