SPECIFICATION Spec
CONSTANTS
    Pages <- MCPages
    MaxPerFrame = 2
    CoinFrames = 2
    MaxCredits = 1
    Levels = {0, 1, 6}
    QueueBound = 3
INVARIANTS
    PreparationIsTracked
    NoStalePrewarm
    GameHasChip
    QueueIsForGame
    CoinQuietInGame
    MusicFollowsLevel
PROPERTIES
    CommandsInOrder
    SoundIsServed
