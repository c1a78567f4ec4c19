SPECIFICATION FairPicture
CONSTANTS
  MaxApprovals = 2
  Limit = 32
  WIDTH = 6
  HEIGHT = 20
  Icon <- MCIcon
  Captions <- MCCaptions
  StatusLine <- MCStatusLine
  Residue <- MCResidue
INVARIANTS NoFreeBeer LcdAgrees GlassShowsLcd
PROPERTIES StatusReachesGlass ServesPromise
