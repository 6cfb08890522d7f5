CONSTANTS
    ROUNDS = 2
    ATTEMPTS = 2
    Settings <- LostPut
    Draws = {1, 2, 3, 4}
SPECIFICATION FairSpec
PROPERTY StoppedIsRestarted
